---- MODULE Spec2Model ----
(***************************************************************************)
(* Model of the rate-limit middleware of honotreez (rateLimit, MemoryStore *)
(* and defaultKeyGenerator) together with the application error boundary   *)
(* (app.onError) that turns the HTTPException it throws into a response.   *)
(*                                                                         *)
(* Time is Date.now() in milliseconds.  Strings are sequences of           *)
(* one-character strings, so that split, trim and template literals are    *)
(* computed character by character.                                        *)
(***************************************************************************)
EXTENDS Integers, Sequences, FiniteSets, TLC

\* ------------------------------------------------------------------ bounds
\* Largest `limit` option drawn in Init.
MaxLimit == 2
\* Largest number of requests one key sends within one window.
MaxSeen == 3
\* Date.now() is not advanced beyond this value (milliseconds).
MaxNow == 1500
\* Largest number of handler calls suspended at the same time.
MaxFlight == 2

\* ------------------------------------------------------- program constants
\* Math.ceil(resetTime / 1000), Math.ceil(windowMs / 1000)
MsPerSec == 1000
\* new HTTPException(429, ...)
TooManyRequests == 429
\* c.status(500) of app.onError for errors that are not HTTPException
InternalServerError == 500

\* Granularity of the clock of the model: half a second, so that window
\* ends fall both on and between whole seconds.
TickMs == MsPerSec \div 2
\* The windowMs options drawn in Init.
WindowChoices == {MsPerSec}

\* An absent header: no string of characters equals it.
Undefined == <<"undefined">>
\* The null of `number | null`: no count equals it.
Null == -1

\* ---------------------------------------------------------------- strings
Max(a, b) == IF a > b THEN a ELSE b

\* Math.ceil(a / b) for b > 0
CeilDiv(a, b) == IF a >= 0 THEN (a + b - 1) \div b ELSE -((-a) \div b)

\* Number.prototype.toString() of a non-negative integer: decimal digits.
Digit(n) == <<"0", "1", "2", "3", "4", "5", "6", "7", "8", "9">>[n + 1]
RECURSIVE toString(_)
toString(n) == IF n < 10 THEN <<Digit(n)>>
               ELSE toString(n \div 10) \o <<Digit(n % 10)>>

\* String.prototype.split(',')[0]: the characters before the first comma.
RECURSIVE splitFirst(_)
splitFirst(s) == IF s = <<>> \/ Head(s) = "," THEN <<>>
                 ELSE <<Head(s)>> \o splitFirst(Tail(s))

\* The WhiteSpace and LineTerminator characters of ECMAScript that a string
\* of the model can hold: space, tab, line feed, carriage return, form
\* feed, vertical tab, no-break space, U+1680 and U+FEFF.  (The characters
\* U+2000 to U+200A, U+2028, U+2029, U+202F, U+205F and U+3000 are
\* whitespace too; no string of the model holds one.)
WhiteSpace ==
    {" ", "\t", "\n", "\r", "\f", "", " ", " ", "﻿"}

\* String.prototype.trim(): whitespace removed at both ends.
RECURSIVE trimStart(_)
trimStart(s) == IF s # <<>> /\ Head(s) \in WhiteSpace THEN trimStart(Tail(s))
                ELSE s
RECURSIVE trimEnd(_)
trimEnd(s) == IF s # <<>> /\ s[Len(s)] \in WhiteSpace
              THEN trimEnd(SubSeq(s, 1, Len(s) - 1)) ELSE s
trim(s) == trimEnd(trimStart(s))

\* JavaScript truthiness of an optional string: defined and not empty.
Truthy(s) == s # Undefined /\ s # <<>>

StrRatelimit == <<"r", "a", "t", "e", "l", "i", "m", "i", "t", ":">>
StrUnknown == <<"u", "n", "k", "n", "o", "w", "n">>

\* defaultKeyGenerator(c)
defaultKeyGenerator(c) ==
    LET forwarded == c.xff
        ip == IF Truthy(forwarded) THEN trim(splitFirst(forwarded))
              ELSE IF Truthy(c.realIp) THEN c.realIp ELSE StrUnknown
    IN  StrRatelimit \o ip

\* ------------------------------------------------------------ MemoryStore
\* The Map of MemoryStore is a function from the keys present to
\* [count, resetTime].  Every operation takes the value t of Date.now().

\* Mutant: the expired entry is removed with a clear() of the whole Map.
MapClear(s, key) == [k \in {} |-> s[k]]

\* this.store.delete(key)
MapDelete(s, key) == [k \in DOMAIN s \ {key} |-> s[k]]

\* Mutant: get without the expiry check of lines 354-357.
getNoExpiry(s, key, t) ==
    IF key \notin DOMAIN s THEN [ret |-> Null, store |-> s]
    ELSE [ret |-> s[key].count, store |-> s]

\* MemoryStore.get: the value returned and the Map afterwards.
get(s, key, t) ==
    IF key \notin DOMAIN s THEN [ret |-> Null, store |-> s]
    ELSE IF t > s[key].resetTime
         THEN [ret |-> Null, store |-> MapDelete(s, key)]
         ELSE [ret |-> s[key].count, store |-> s]

\* MemoryStore.set: the Map afterwards.
set(s, key, value, ttl, t) ==
    [k \in DOMAIN s \cup {key} |->
        IF k = key THEN [count |-> value, resetTime |-> t + ttl] ELSE s[k]]

\* Mutant: increment starts the window of the entry again.
incrementSliding(s, key, t) ==
    IF key \notin DOMAIN s \/ t > s[key].resetTime
    THEN [ret |-> 0, store |-> s]
    ELSE [ret |-> s[key].count + 1,
          store |-> [s EXCEPT ![key] = [count |-> @.count + 1,
                                        resetTime |-> t + MsPerSec]]]

\* Mutant: increment returns the next count without storing it.
incrementUnstored(s, key, t) ==
    IF key \notin DOMAIN s \/ t > s[key].resetTime
    THEN [ret |-> 0, store |-> s]
    ELSE [ret |-> s[key].count + 1, store |-> s]

\* Mutant: increment starts an entry when there is no live one.
incrementRevives(s, key, t) ==
    IF key \notin DOMAIN s \/ t > s[key].resetTime
    THEN [ret |-> 1, store |-> set(s, key, 1, MsPerSec, t)]
    ELSE [ret |-> s[key].count + 1,
          store |-> [s EXCEPT ![key].count = @ + 1]]

\* MemoryStore.increment: the value returned and the Map afterwards.
increment(s, key, t) ==
    IF key \notin DOMAIN s \/ t > s[key].resetTime
    THEN [ret |-> 0, store |-> s]
    ELSE [ret |-> s[key].count + 1,
          store |-> [s EXCEPT ![key].count = @ + 1]]

\* Mutant: the sweep deletes an entry from the instant of its window end.
cleanupAtEnd(s, t) ==
    [k \in {x \in DOMAIN s : ~(t >= s[x].resetTime)} |-> s[k]]

\* MemoryStore.cleanup: the Map afterwards.
cleanup(s, t) ==
    [k \in {x \in DOMAIN s : ~(t > s[x].resetTime)} |-> s[k]]

\* ---------------------------------------------------------------- requests
\* c.get('user') when no user is set, and a user that the skip predicate of
\* the usage guide (user?.role === 'admin') lets through.
NoUser == [id |-> <<>>, role |-> "none"]
AdminUser == [id |-> <<"7">>, role |-> "admin"]

\* The request contexts drawn by the model: the x-forwarded-for header, the
\* x-real-ip header and the user held by the context.
ReqContexts ==
    { [xff |-> <<"1">>, realIp |-> Undefined, user |-> NoUser],
      [xff |-> <<" ", "1", " ", ",", "2">>, realIp |-> <<"2">>,
       user |-> AdminUser],
      [xff |-> Undefined, realIp |-> <<"2">>, user |-> NoUser],
      [xff |-> <<>>, realIp |-> <<"2">>, user |-> AdminUser] }

\* ----------------------------------------------------------------- options
EmptyOptions == [x \in {} |-> 0]

OptionChoices(name, values) ==
    {EmptyOptions} \cup {[x \in {name} |-> v] : v \in values}

\* The options objects drawn in Init; an option that is not in the DOMAIN
\* is not given and takes its default.
OptionsSet ==
    { [limit |-> l, windowMs |-> w] : l \in 0..MaxLimit, w \in WindowChoices }
    \cup { [limit |-> 1, windowMs |-> w] @@ x :
        w \in WindowChoices,
        x \in { [handler |-> "customHandler"], [skip |-> "skipAdmin"],
                [message |-> "Slow down"], [standardHeaders |-> FALSE],
                [legacyHeaders |-> TRUE],
                [standardHeaders |-> FALSE, legacyHeaders |-> TRUE],
                [standardHeaders |-> TRUE, legacyHeaders |-> FALSE] } }
    \cup {EmptyOptions}

VARIABLES
    now,      \* Date.now()
    store,    \* the Map of the MemoryStore of the limiter
    options,  \* the options rateLimit was created with
    last,     \* the request just handled, if the last step handled one:
              \* what rateLimit did and the response
    win,      \* per key, the current window as an observer counts it
    run       \* what the other middleware and the key generators did in
              \* the last step (the guards, authMiddleware, the application
              \* pipeline, requestBodyLogger)

vars == <<now, store, options, last, win, run>>

\* Destructuring of options with defaults (rateLimit, lines 419-429).
Opt(name, default) ==
    IF name \in DOMAIN options THEN options[name] ELSE default
limit == Opt("limit", 100)
windowMs == Opt("windowMs", 60000)
message == Opt("message", "Too many requests, please try again later.")
hasHandler == "handler" \in DOMAIN options
hasSkip == "skip" \in DOMAIN options
standardHeaders == Opt("standardHeaders", TRUE)
\* Mutant: legacyHeaders defaults to true.
legacyHeadersOn == Opt("legacyHeaders", TRUE)
legacyHeaders == Opt("legacyHeaders", FALSE)

\* The skip predicate of the usage guide: user?.role === 'admin'.
skip(c) == c.user.role = "admin"

\* Mutant: the skip option is ignored.
shouldSkipNever(c) == FALSE

\* if (skip && (await skip(c)))
shouldSkip(c) == hasSkip /\ skip(c)

\* keyGenerator = defaultKeyGenerator (no keyGenerator option is drawn).
keyGenerator(c) == defaultKeyGenerator(c)

\* const currentCount = (await store.get(key)) || 0
currentCountOf(ret) == IF ret = Null \/ ret = 0 THEN 0 ELSE ret

\* const resetTime = Date.now() + windowMs
resetTime(t) == t + windowMs

\* Mutant: the current request is not counted in remaining.
remainingUncounted(currentCount) == Max(0, limit - currentCount)

\* const remaining = Math.max(0, limit - (currentCount === 0 ? 1 : currentCount + 1))
remaining(currentCount) ==
    Max(0, limit - (IF currentCount = 0 THEN 1 ELSE currentCount + 1))

\* Mutant: the comparison with the limit is strict.
isLimitExceededStrict(currentCount) == currentCount > limit

\* const isLimitExceeded = currentCount >= limit
isLimitExceeded(currentCount) == currentCount >= limit

\* The headers set by lines 459-469 and 473, as a function from the names
\* of the headers set to their values.
NoHeaders == [x \in {} |-> <<>>]

standardHeaderSet(currentCount, t) ==
    IF standardHeaders
    THEN [h \in {"RateLimit-Limit", "RateLimit-Remaining", "RateLimit-Reset"} |->
            CASE h = "RateLimit-Limit" -> toString(limit)
              [] h = "RateLimit-Remaining" -> toString(remaining(currentCount))
              [] h = "RateLimit-Reset" ->
                    toString(CeilDiv(resetTime(t), MsPerSec))]
    ELSE NoHeaders

legacyHeaderSet(currentCount, t) ==
    IF legacyHeaders
    THEN [h \in {"X-RateLimit-Limit", "X-RateLimit-Remaining", "X-RateLimit-Reset"} |->
            CASE h = "X-RateLimit-Limit" -> toString(limit)
              [] h = "X-RateLimit-Remaining" -> toString(remaining(currentCount))
              [] h = "X-RateLimit-Reset" ->
                    toString(CeilDiv(resetTime(t), MsPerSec))]
    ELSE NoHeaders

retryAfterHeader(currentCount) ==
    IF isLimitExceeded(currentCount)
    THEN [h \in {"Retry-After"} |-> toString(CeilDiv(windowMs, MsPerSec))]
    ELSE NoHeaders

\* Mutant: a plain Error is thrown instead of an HTTPException.
rateLimitPlainError(t) ==
    [isHTTPException |-> FALSE, status |-> TooManyRequests, message |-> message,
     cause |-> [limit |-> limit, remaining |-> 0,
                reset |-> CeilDiv(resetTime(t), MsPerSec)]]

\* new HTTPException(429, { message, cause: { limit, remaining: 0, reset } })
rateLimitException(t) ==
    [isHTTPException |-> TRUE, status |-> TooManyRequests, message |-> message,
     cause |-> [limit |-> limit, remaining |-> 0,
                reset |-> CeilDiv(resetTime(t), MsPerSec)]]

\* A response whose status and body are not decided by the limiter.
NoCause == [limit |-> -1, remaining |-> -1, reset |-> -1]
Downstream(source) ==
    [source |-> source, status |-> 0, message |-> "", error |-> NoCause]

\* Mutant: the error boundary without its HTTPException branch.
onErrorGeneric(err) ==
    [source |-> "onError", status |-> InternalServerError,
     message |-> "", error |-> NoCause]

\* app.onError of index.ts: the response made of an error thrown by a
\* middleware.
onError(err) ==
    IF err.isHTTPException
    THEN [source |-> "onError", status |-> err.status,
          message |-> err.message, error |-> err.cause]
    ELSE [source |-> "onError", status |-> InternalServerError,
          message |-> "", error |-> NoCause]

\* The observer's window of a key: when it ends, how many requests it has
\* seen and how many of them were admitted.  A request opens a new window
\* when the key has none or the last one ended before the request arrived.
NoWindow == [end |-> -1, seen |-> 0, admitted |-> 0]
WinOf(key) == IF key \in DOMAIN win THEN win[key] ELSE NoWindow
OpensWindow(key, t) == WinOf(key).end = -1 \/ t > WinOf(key).end

\* No error: the value of `error` when nothing was thrown.
NoStoreError ==
    [isHTTPException |-> FALSE, status |-> 0, message |-> "",
     cause |-> NoCause]

NoRequest ==
    [kind |-> "none", ctx |-> [xff |-> Undefined, realIp |-> Undefined,
                               user |-> NoUser],
     skipped |-> FALSE, key |-> <<>>, keyCalls |-> 0, storeOps |-> <<>>,
     failedOp |-> "none", currentCount |-> 0, arrivedAt |-> 0,
     evaluatedAt |-> 0, prev |-> NoWindow, nextCalls |-> 0,
     handlerCalls |-> 0, thrown |-> FALSE, error |-> NoStoreError,
     headers |-> NoHeaders, response |-> Downstream("none")]

\* ------------------------------------------------------- requests in flight
\* The handler returned by rateLimit is an async function: a call of it runs
\* to its first await, and each time it resumes it runs to the next one.
\* The calls of other requests, the clock and the sweep run in between.  A
\* slot holds one call of the handler: where it is suspended and the values
\* of its local variables.
\*   "skip":  at `await skip(c)` (line 438)
\*   "get":   at `await store.get(key)` (line 443)
\*   "store": at `await store.set(...)` / `await store.increment(key)`
\*            (lines 447, 449)
\* `rejected` is the error the awaited promise rejects with, if it does (the
\* MemoryStore never fails; a store given in options.store can).
IdleSlot ==
    [pc |-> "idle", ctx |-> NoRequest.ctx, key |-> <<>>, currentCount |-> 0,
     arrivedAt |-> 0, evaluatedAt |-> 0, prev |-> NoWindow,
     storeOps |-> <<>>, rejected |-> NoStoreError]

\* The slots of n handler calls, none started; `overlap` records whether a
\* call was ever started while another one was suspended.
NoFlight(n) ==
    [kind |-> "flight", req |-> [i \in 1..n |-> IdleSlot],
     overlap |-> FALSE]

Slots == DOMAIN run.req
InFlight == {i \in Slots : run.req[i].pc # "idle"}
\* The calls suspended at store.get for the key.
Pending(key) ==
    Cardinality({i \in Slots : run.req[i].pc = "get" /\ run.req[i].key = key})

Init ==
    /\ now = 0
    /\ store = [x \in {} |-> 0]
    /\ options \in OptionsSet
    /\ last = NoRequest
    /\ win = [x \in {} |-> 0]
    /\ run = NoFlight(MaxFlight)

\* Time passes.
Tick ==
    /\ now + TickMs <= MaxNow
    /\ now' = now + TickMs
    /\ last' = NoRequest
    /\ UNCHANGED <<store, options, win, run>>

\* setInterval(() => store.cleanup(), 5 * 60 * 1000)
Cleanup ==
    /\ store' = cleanup(store, now)
    /\ last' = NoRequest
    /\ UNCHANGED <<now, options, win, run>>

\* const key = keyGenerator(c); store.get(key) is called and the handler is
\* suspended at the await (lines 442-443).  A key sends at most maxSeen
\* requests within one window.
awaitGet(i, c, maxSeen) ==
    LET key == keyGenerator(c)
        got == get(store, key, now)
    IN  /\ OpensWindow(key, now) \/ WinOf(key).seen + Pending(key) < maxSeen
        /\ store' = got.store
        /\ run' = [run EXCEPT
                     !.req[i] = [IdleSlot EXCEPT
                                   !.pc = "get", !.ctx = c, !.key = key,
                                   !.currentCount = currentCountOf(got.ret),
                                   !.arrivedAt = now,
                                   !.storeOps = <<"get">>],
                     !.overlap = @ \/ InFlight \ {i} # {}]
        /\ last' = NoRequest
        /\ UNCHANGED <<now, options, win>>

\* The handler is called for the request context c: skip(c) is called and
\* awaited when the option is given (line 438), else the handler goes on to
\* store.get.  The call takes the first free slot.
Arrive(i, c, maxSeen) ==
    /\ run.req[i].pc = "idle"
    /\ \A j \in Slots : j < i => run.req[j].pc # "idle"
    /\ IF hasSkip
       THEN /\ run' = [run EXCEPT
                         !.req[i] = [IdleSlot EXCEPT !.pc = "skip",
                                                     !.ctx = c,
                                                     !.arrivedAt = now],
                         !.overlap = @ \/ InFlight # {}]
            /\ last' = NoRequest
            /\ UNCHANGED <<now, store, options, win>>
       ELSE awaitGet(i, c, maxSeen)

\* The handler resumes after await skip(c): return next() when the
\* predicate held, else the handler goes on to store.get.
AfterSkip(i, maxSeen) ==
    /\ run.req[i].pc = "skip"
    /\ IF shouldSkip(run.req[i].ctx)
       THEN /\ last' = [NoRequest EXCEPT
                          !.kind = "request", !.ctx = run.req[i].ctx,
                          !.skipped = TRUE,
                          !.arrivedAt = run.req[i].arrivedAt,
                          !.evaluatedAt = now, !.nextCalls = 1,
                          !.response = Downstream("next")]
            /\ run' = [run EXCEPT !.req[i] = IdleSlot]
            /\ UNCHANGED <<now, store, options, win>>
       ELSE awaitGet(i, run.req[i].ctx, maxSeen)

\* The handler resumes after await store.get(key): resetTime is computed,
\* store.set or store.increment is called and the handler is suspended at
\* the await (lines 444-450).  The observer counts the request in the
\* window of its key.
AfterGet(i) ==
    /\ run.req[i].pc = "get"
    /\ run.req[i].rejected = NoStoreError
    /\ LET r == run.req[i]
           key == r.key
           stored == IF r.currentCount = 0
                     THEN set(store, key, 1, windowMs, now)
                     ELSE increment(store, key, now).store
           opens == OpensWindow(key, r.arrivedAt)
           w == WinOf(key)
           adm == IF isLimitExceeded(r.currentCount) THEN 0 ELSE 1
       IN  /\ store' = stored
           /\ win' = [k \in DOMAIN win \cup {key} |->
                        IF k # key THEN win[k]
                        ELSE IF opens
                             THEN [end |-> now + windowMs, seen |-> 1,
                                   admitted |-> adm]
                             ELSE [w EXCEPT !.seen = @ + 1,
                                            !.admitted = @ + adm]]
           /\ run' = [run EXCEPT
                        !.req[i].pc = "store",
                        !.req[i].evaluatedAt = now,
                        !.req[i].prev = w,
                        !.req[i].storeOps =
                            @ \o <<IF r.currentCount = 0 THEN "set"
                                   ELSE "increment">>]
    /\ last' = NoRequest
    /\ UNCHANGED <<now, options>>

\* What the handler does after await store.set / store.increment (lines
\* 452-489) and the response the application makes of it: the headers are
\* set, and the handler is called, the HTTPException is thrown or next is
\* invoked.
completed(r) ==
    LET currentCount == r.currentCount
        t == r.evaluatedAt
        exceeded == isLimitExceeded(currentCount)
    IN  [NoRequest EXCEPT
           !.kind = "request", !.ctx = r.ctx, !.key = r.key, !.keyCalls = 1,
           !.storeOps = r.storeOps, !.currentCount = currentCount,
           !.arrivedAt = r.arrivedAt, !.evaluatedAt = t, !.prev = r.prev,
           !.nextCalls = IF exceeded THEN 0 ELSE 1,
           !.handlerCalls = IF exceeded /\ hasHandler THEN 1 ELSE 0,
           !.thrown = exceeded /\ ~hasHandler,
           !.error = IF exceeded /\ ~hasHandler THEN rateLimitException(t)
                     ELSE NoStoreError,
           !.headers = standardHeaderSet(currentCount, t)
                       @@ legacyHeaderSet(currentCount, t)
                       @@ retryAfterHeader(currentCount),
           !.response = IF ~exceeded THEN Downstream("next")
                        ELSE IF hasHandler THEN Downstream("handler")
                        ELSE onError(rateLimitException(t))]

\* The handler resumes after await store.set / store.increment and runs to
\* its end.
AfterStore(i) ==
    /\ run.req[i].pc = "store"
    /\ run.req[i].rejected = NoStoreError
    /\ last' = completed(run.req[i])
    /\ run' = [run EXCEPT !.req[i] = IdleSlot]
    /\ UNCHANGED <<now, store, options, win>>

\* A window sees at most one request beyond the limit, and at most MaxSeen.
SeenBound == IF limit + 1 < MaxSeen THEN limit + 1 ELSE MaxSeen

\* The requests of one client; the ones of a user that the skip predicate
\* lets through are drawn when the predicate is configured (the handler
\* reads the user nowhere else).
Clients ==
    {c \in ReqContexts :
        /\ c.xff \notin {Undefined, <<>>}
        /\ hasSkip \/ c.user = NoUser}

Next ==
    \/ Tick
    \/ Cleanup
    \/ \E i \in Slots, c \in Clients : Arrive(i, c, SeenBound)
    \/ \E i \in Slots : AfterSkip(i, SeenBound)
    \/ \E i \in Slots : AfterGet(i)
    \/ \E i \in Slots : AfterStore(i)

Spec == Init /\ [][Next]_vars

\* Two clients with different keys, under one limiter.
PairOptions == {[limit |-> 1, windowMs |-> w] : w \in WindowChoices}
PairClients == {c \in ReqContexts : c.user = NoUser}

InitPair ==
    /\ now = 0
    /\ store = [x \in {} |-> 0]
    /\ options \in PairOptions
    /\ last = NoRequest
    /\ win = [x \in {} |-> 0]
    /\ run = NoFlight(MaxFlight)

NextPair ==
    \/ Tick
    \/ Cleanup
    \/ \E i \in Slots, c \in PairClients : Arrive(i, c, SeenBound)
    \/ \E i \in Slots : AfterGet(i)
    \/ \E i \in Slots : AfterStore(i)

SpecPair == InitPair /\ [][NextPair]_vars

\* ------------------------------------------------------------------ claims
Min(a, b) == IF a < b THEN a ELSE b

\* The last step handled a request / a request that was not skipped.
Handled == last.kind = "request"
Evaluated == Handled /\ ~last.skipped
\* Every handler call so far ran to its end before the next one started.
OneAtATime == ~run.overlap
\* The step is one of the handler call in slot i, for the request context
\* StepCtx(i): the call is suspended at store.get by it (GetStep), or it
\* resumes from store.get and calls store.set or store.increment
\* (StoreStep, the operation being StoreOp(i)).
StepOf(i) == run'.req[i] # run.req[i]
StepCtx(i) == IF run.req[i].pc = "idle" THEN run'.req[i].ctx ELSE run.req[i].ctx
GetStep(i) == run.req[i].pc \in {"idle", "skip"} /\ run'.req[i].pc = "get"
StoreStep(i) == run.req[i].pc = "get" /\ run'.req[i].pc = "store"
StoreOp(i) == run'.req[i].storeOps[Len(run'.req[i].storeOps)]
\* The key has an entry whose window has not ended.
LiveEntry(key) == key \in DOMAIN store /\ ~(now > store[key].resetTime)

StandardNames == {"RateLimit-Limit", "RateLimit-Remaining", "RateLimit-Reset"}
LegacyNames == {"X-RateLimit-Limit", "X-RateLimit-Remaining", "X-RateLimit-Reset"}

\* C1: with requests evaluated one at a time, a request evaluated for a key
\* is admitted (the next stage is invoked) exactly when it is at most the
\* limit-th request of the key's window, so that every window has admitted
\* min(requests seen, limit) requests; a request that is not admitted fails
\* with status 429 (or, when a handler is configured, gets the handler's
\* response).
InvC1 ==
    OneAtATime =>
        /\ \A k \in DOMAIN win : win[k].admitted = Min(win[k].seen, limit)
        /\ Evaluated =>
              LET w == win[last.key]
              IN  /\ (last.nextCalls = 1) <=> (w.seen <= limit)
                  /\ w.seen > limit =>
                        /\ last.nextCalls = 0
                        /\ IF hasHandler
                           THEN last.response.source = "handler"
                           ELSE last.response.status = TooManyRequests

WitnessC1 ==
    /\ OneAtATime
    /\ Evaluated /\ limit = 2 /\ ~hasHandler
    /\ win[last.key] = [end |-> win[last.key].end, seen |-> 3, admitted |-> 2]
    /\ last.nextCalls = 0
    /\ last.response.status = TooManyRequests

\* C2: a request that arrives after the end of the key's previous window
\* starts a new window: store.set is called with count 1 and, for
\* limit >= 1, the request is admitted and reports RateLimit-Remaining =
\* limit - 1, however many requests the previous window saw.
InvC2 ==
    (Evaluated /\ last.prev.end # -1 /\ last.arrivedAt > last.prev.end) =>
        /\ last.storeOps = <<"get", "set">>
        /\ limit >= 1 =>
              /\ last.nextCalls = 1
              /\ standardHeaders =>
                    last.headers["RateLimit-Remaining"] = toString(limit - 1)

WitnessC2 ==
    /\ Evaluated /\ last.prev.end # -1 /\ last.arrivedAt > last.prev.end
    /\ limit >= 1 /\ last.prev.seen > limit
    /\ last.nextCalls = 1
    /\ last.storeOps = <<"get", "set">>

\* C3: with requests evaluated one at a time, the remaining value reported
\* by an evaluated request is the limit minus the number of requests
\* admitted so far in the key's window (this request included when it is
\* admitted), and is never negative.
InvC3 ==
    (OneAtATime /\ Evaluated) =>
        LET left == limit - win[last.key].admitted
        IN  /\ left >= 0
            /\ standardHeaders =>
                  last.headers["RateLimit-Remaining"] = toString(left)
            /\ legacyHeaders =>
                  last.headers["X-RateLimit-Remaining"] = toString(left)

WitnessC3 ==
    /\ OneAtATime
    /\ Evaluated /\ limit = 2 /\ standardHeaders
    /\ win[last.key].seen = 2 /\ last.nextCalls = 1
    /\ last.headers["RateLimit-Remaining"] = <<"0">>

\* C4: the RateLimit-Reset value reported by an evaluated request is the
\* time, in Unix seconds, at which the key's window ends in the store.
InvC4 ==
    (Evaluated /\ standardHeaders /\ last.key \in DOMAIN store) =>
        last.headers["RateLimit-Reset"] =
            toString(CeilDiv(store[last.key].resetTime, MsPerSec))

\* C5: the Retry-After value of a rejected request is the number of seconds
\* left until the key's window ends in the store.
InvC5 ==
    (Evaluated /\ last.nextCalls = 0 /\ last.key \in DOMAIN store) =>
        last.headers["Retry-After"] =
            toString(CeilDiv(Max(0, store[last.key].resetTime - now), MsPerSec))

\* C6: no step of a handler call for a request for which the skip predicate
\* holds changes the store, and the request invokes the next stage once; no
\* store operation is performed, no key is computed and no header is set.
PropC6 ==
    [][ /\ \A i \in Slots :
              (StepOf(i) /\ hasSkip /\ skip(StepCtx(i))) =>
                    /\ store' = store
                    /\ run'.req[i].storeOps = <<>>
        /\ (last'.kind = "request" /\ hasSkip /\ skip(last'.ctx)) =>
              /\ last'.nextCalls = 1
              /\ last'.storeOps = <<>>
              /\ last'.keyCalls = 0
              /\ last'.headers = NoHeaders ]_vars

\* The skipped request met an expired entry of its client, which an
\* evaluation would have deleted or overwritten.
WitnessC6 ==
    /\ Handled /\ hasSkip /\ skip(last.ctx) /\ last.nextCalls = 1
    /\ defaultKeyGenerator(last.ctx) \in DOMAIN store
    /\ now > store[defaultKeyGenerator(last.ctx)].resetTime

\* C7: every step of a handler call for one key, however the calls are
\* interleaved, leaves the entry of every other key as it was and creates
\* no entry for another key.
PropC7 ==
    [][ \A i \in Slots :
            StepOf(i) =>
                LET key == defaultKeyGenerator(StepCtx(i))
                IN  /\ DOMAIN store' \subseteq DOMAIN store \cup {key}
                    /\ \A b \in DOMAIN store \ {key} :
                          b \in DOMAIN store' /\ store'[b] = store[b] ]_vars

\* A first request of one key is admitted while another key is past its
\* limit in a window that has not ended.
WitnessC7 ==
    /\ Evaluated /\ limit >= 1
    /\ last.prev.seen = 0 /\ last.nextCalls = 1
    /\ \E a \in DOMAIN store \ {last.key} :
          /\ store[a].count > limit
          /\ now <= store[a].resetTime

\* The number of the request just evaluated among the requests of its
\* window.
Position ==
    IF last.prev.end = -1 \/ last.arrivedAt > last.prev.end THEN 1
    ELSE last.prev.seen + 1

\* C8: a request for which the limit is exceeded (currentCount >= limit;
\* with requests evaluated one at a time, every request of a window after
\* the limit-th) never invokes the next stage; with a handler the handler's
\* response is returned and nothing is thrown, without one the request
\* fails with status 429, the configured message and the cause {limit,
\* remaining: 0, reset}; an admitted request invokes the next stage exactly
\* once.
InvC8 ==
    Evaluated =>
        /\ OneAtATime => (last.currentCount >= limit <=> Position > limit)
        /\ IF last.currentCount >= limit
           THEN /\ last.nextCalls = 0
                /\ hasHandler =>
                      /\ last.handlerCalls = 1 /\ ~last.thrown
                      /\ last.response.source = "handler"
                /\ ~hasHandler =>
                      /\ last.handlerCalls = 0
                      /\ last.response.status = TooManyRequests
                      /\ last.response.message = message
                      /\ last.response.error =
                            [limit |-> limit, remaining |-> 0,
                             reset |-> CeilDiv(last.evaluatedAt + windowMs,
                                               MsPerSec)]
           ELSE /\ last.nextCalls = 1 /\ last.handlerCalls = 0
                /\ ~last.thrown

WitnessC8 ==
    /\ Evaluated /\ "message" \in DOMAIN options
    /\ Position > limit /\ last.nextCalls = 0
    /\ last.response.status = TooManyRequests
    /\ last.response.message = "Slow down"
    /\ last.response.error.remaining = 0

\* C9 as stated: a request for which the limit is exceeded is never thrown
\* to the caller of the middleware.
InvC9Stated ==
    (Evaluated /\ last.currentCount >= limit) => ~last.thrown

\* C9: a request for which the limit is exceeded is thrown by the
\* middleware to its caller exactly when no handler is configured, and what
\* is thrown is made a response with status 429 by app.onError.
InvC9 ==
    (Evaluated /\ last.currentCount >= limit) =>
        /\ last.thrown <=> ~hasHandler
        /\ last.thrown =>
              /\ last.response.source = "onError"
              /\ last.response.status = TooManyRequests

WitnessC9 ==
    /\ Evaluated /\ limit = 0 /\ Position = 1
    /\ last.thrown
    /\ last.response.source = "onError"
    /\ last.response.status = TooManyRequests

\* C10: an evaluated request, admitted or rejected, carries the three
\* RateLimit-* headers unless standardHeaders is given as false, and the
\* three X-RateLimit-* headers only if legacyHeaders is given as true.
InvC10 ==
    Evaluated =>
        /\ DOMAIN last.headers \cap StandardNames =
              IF "standardHeaders" \in DOMAIN options
                 /\ ~options.standardHeaders
              THEN {} ELSE StandardNames
        /\ DOMAIN last.headers \cap LegacyNames =
              IF "legacyHeaders" \in DOMAIN options /\ options.legacyHeaders
              THEN LegacyNames ELSE {}
        /\ "RateLimit-Limit" \in DOMAIN last.headers =>
              last.headers["RateLimit-Limit"] = toString(limit)

\* A request rejected under the default options.
WitnessC10 ==
    /\ Evaluated /\ DOMAIN options \cap {"standardHeaders", "legacyHeaders"} = {}
    /\ last.nextCalls = 0
    /\ DOMAIN last.headers = StandardNames \cup {"Retry-After"}

\* ===================================================== key generators
\* The keys produced by defaultKeyGenerator, createUserRateLimit and
\* createRouteRateLimit, computed over bounded header values.

\* Longest header value drawn.
MaxHeaderLen == 3

HeaderChars == {"1", " ", "\t", ","}
HeaderValues == UNION {[1..n -> HeaderChars] : n \in 0..MaxHeaderLen}

OtherUser == [id |-> <<"8">>, role |-> "user"]
\* A user object without an id, and a user that is a string.
IdlessUser == [role |-> "admin"]
StringUser == [typeof |-> "string"]

\* typeof user, for a user that is set.
typeofUser(u) == IF "typeof" \in DOMAIN u THEN u.typeof ELSE "object"

\* user && typeof user === 'object' && 'id' in user
hasUser(c) ==
    /\ c.user # NoUser
    /\ typeofUser(c.user) = "object"
    /\ "id" \in DOMAIN c.user

\* The contexts whose key is computed.
KeyContexts ==
    [xff : HeaderValues \cup {Undefined},
     realIp : {Undefined, <<>>, <<"2">>},
     user : {NoUser, AdminUser, OtherUser, IdlessUser, StringUser}]

\* The second request a key is compared with.
KeyPeers ==
    { [xff |-> <<"2">>, realIp |-> Undefined, user |-> u] :
        u \in {NoUser, AdminUser, OtherUser} }
    \cup { [xff |-> Undefined, realIp |-> <<"2">>, user |-> AdminUser] }
    \cup { [xff |-> <<"u", "s", "e", "r", ":", "7">>, realIp |-> Undefined,
             user |-> NoUser] }

RouteA == <<"/", "a">>
RouteB == <<"/", "b">>
Routes == {RouteA, RouteB}

StrUserColon == <<"u", "s", "e", "r", ":">>
StrColon == <<":">>

\* A keyGenerator given by the caller, c => c.req.header('x-real-ip') ?? '':
\* it returns the empty string for a request without the header.
customKeyGenerator(c) == IF c.realIp = Undefined THEN <<>> ELSE c.realIp

\* The values of the keyGenerator option.
CustomGen == [gen |-> "custom", route |-> <<>>, inner |-> EmptyOptions]
UserGen == [gen |-> "user", route |-> <<>>, inner |-> EmptyOptions]
RouteGen(route, o) == [gen |-> "route", route |-> route, inner |-> o]

\* The options given to the two factories.
FactoryOptions == {EmptyOptions, [keyGenerator |-> CustomGen], [limit |-> 1]}

\* The keyGenerator closure of createUserRateLimit.
userKeyGenerator(c) ==
    IF hasUser(c) THEN StrRatelimit \o StrUserColon \o c.user.id
    ELSE defaultKeyGenerator(c)

\* { keyGenerator, ...options }: the options win.
createUserRateLimitOptionsLast(o) ==
    [k \in DOMAIN o \cup {"keyGenerator"} |->
        IF k \in DOMAIN o THEN o[k] ELSE UserGen]

\* createUserRateLimit(options): the options rateLimit is created with,
\* { ...options, keyGenerator }.
createUserRateLimit(o) ==
    [k \in DOMAIN o \cup {"keyGenerator"} |->
        IF k = "keyGenerator" THEN UserGen ELSE o[k]]

\* options.keyGenerator?.(c) || defaultKeyGenerator(c)
baseKey(o, c) ==
    LET given == IF "keyGenerator" \in DOMAIN o THEN customKeyGenerator(c)
                 ELSE Undefined
    IN  IF Truthy(given) THEN given ELSE defaultKeyGenerator(c)

\* The keyGenerator closure of createRouteRateLimit.
routeKeyGenerator(route, o, c) == baseKey(o, c) \o StrColon \o route

\* createRouteRateLimit(route, options): the options rateLimit is created
\* with.
createRouteRateLimit(route, o) ==
    [k \in DOMAIN o \cup {"keyGenerator"} |->
        IF k = "keyGenerator" THEN RouteGen(route, o) ELSE o[k]]

\* const key = keyGenerator(c) of rateLimit created with the options o
\* (keyGenerator = defaultKeyGenerator when the option is not given).
generateKey(o, c) ==
    IF "keyGenerator" \notin DOMAIN o THEN defaultKeyGenerator(c)
    ELSE LET g == o.keyGenerator
         IN  CASE g.gen = "custom" -> customKeyGenerator(c)
               [] g.gen = "user" -> userKeyGenerator(c)
               [] g.gen = "route" -> routeKeyGenerator(g.route, g.inner, c)

\* The calls drawn: the options given to a factory, the request, the request
\* it is compared with and the two routes.
KeyCalls ==
    [kind : {"call"}, opts : FactoryOptions, ctx : KeyContexts,
     peer : KeyPeers, route : Routes, peerRoute : Routes]

InitKey ==
    /\ now = 0
    /\ store = [x \in {} |-> 0]
    /\ options = EmptyOptions
    /\ last = NoRequest
    /\ win = [x \in {} |-> 0]
    /\ run \in KeyCalls

\* rateLimit() computes the key of the request.
DefaultKey ==
    /\ run.kind = "call"
    /\ run' = [run EXCEPT !.kind = "defaultKey"] @@
              [key |-> generateKey(EmptyOptions, run.ctx)]
    /\ UNCHANGED <<now, store, options, last, win>>

\* createUserRateLimit(opts) computes the keys of the two requests.
UserKey ==
    /\ run.kind = "call"
    /\ run' = [run EXCEPT !.kind = "userKey"] @@
              [key |-> generateKey(createUserRateLimit(run.opts), run.ctx),
               peerKey |->
                   generateKey(createUserRateLimit(run.opts), run.peer)]
    /\ UNCHANGED <<now, store, options, last, win>>

\* createRouteRateLimit(route, opts) and createRouteRateLimit(peerRoute,
\* opts) compute the key of the same request.
RouteKey ==
    /\ run.kind = "call"
    /\ run' = [run EXCEPT !.kind = "routeKey"] @@
              [key |-> generateKey(createRouteRateLimit(run.route, run.opts),
                                   run.ctx),
               peerKey |->
                   generateKey(createRouteRateLimit(run.peerRoute, run.opts),
                               run.ctx)]
    /\ UNCHANGED <<now, store, options, last, win>>

NextKey == DefaultKey \/ UserKey \/ RouteKey

SpecKey == InitKey /\ [][NextKey]_vars

\* C11: the default key is "ratelimit:<address>", the address being the
\* first comma-separated entry of x-forwarded-for, trimmed, when that header
\* yields an address, otherwise the x-real-ip value when present, otherwise
\* 'unknown'.  Violated: a present x-forwarded-for whose first entry is blank
\* yields the key "ratelimit:" with an empty address and no fallback.
AddressC11(c) ==
    LET first == IF c.xff = Undefined THEN <<>> ELSE trim(splitFirst(c.xff))
    IN  IF first # <<>> THEN first
        ELSE IF Truthy(c.realIp) THEN c.realIp ELSE StrUnknown
InvC11 ==
    run.kind = "defaultKey" => run.key = StrRatelimit \o AddressC11(run.ctx)

\* C12: createUserRateLimit keys a request whose context holds a user by
\* "ratelimit:user:<id>" whatever the IP headers are, so two requests of
\* users share a key exactly when the ids are equal; it keys by the default
\* IP key only when there is no user; a keyGenerator in the options is
\* ignored.
InvC12 ==
    run.kind = "userKey" =>
        /\ hasUser(run.ctx) =>
                run.key = StrRatelimit \o StrUserColon \o run.ctx.user.id
        /\ ~hasUser(run.ctx) => run.key = defaultKeyGenerator(run.ctx)
        /\ hasUser(run.ctx) /\ hasUser(run.peer) =>
                (run.key = run.peerKey <=> run.ctx.user.id = run.peer.user.id)
WitnessC12 ==
    /\ run.kind = "userKey"
    /\ "keyGenerator" \in DOMAIN run.opts
    /\ hasUser(run.ctx) /\ hasUser(run.peer)
    /\ run.ctx.user.id = run.peer.user.id
    /\ run.ctx.xff # run.peer.xff /\ run.ctx.realIp # run.peer.realIp
    /\ run.key = run.peerKey

\* C13: createRouteRateLimit keys a request by the base key (the result of
\* options.keyGenerator when one is given, else the default IP key) with
\* ":" and the route appended.  Violated: when the given keyGenerator returns
\* the empty string the default IP key is the base.
InvC13 ==
    run.kind = "routeKey" =>
        run.key = (IF "keyGenerator" \in DOMAIN run.opts
                   THEN customKeyGenerator(run.ctx)
                   ELSE defaultKeyGenerator(run.ctx))
                  \o StrColon \o run.route

\* ============================================================== guards
\* authGuard, adminGuard, roleGuard, permissionGuard and roleOrPermissionGuard
\* of env.ts, called for the requests in flight: a call runs to its next
\* await and is resumed when the promise it awaits settles, the calls of
\* other requests running in between.  run.req holds the state of the call
\* of every request.

Unauthorized == 401
Forbidden == 403

\* AUTH_MESSAGE
AUTH_MESSAGE ==
    [UNAUTHORIZED |-> "Unauthorized Access",
     FORBIDDEN |-> "Insufficient permissions"]

\* c.get('user'): null (NoUser) or a user object; a user without a role
\* has no "role" in its DOMAIN.
GuardUsers ==
    {NoUser, AdminUser, OtherUser,
     [id |-> <<"9">>, role |-> "doctor"],
     [id |-> <<"5">>, role |-> ""],
     [id |-> <<"6">>]}

\* The allowedRoles argument: a single role or an array of roles.
SingleRole(r) == [isArray |-> FALSE, role |-> r, list |-> <<>>]
RoleList(l) == [isArray |-> TRUE, role |-> "", list |-> l]
AllowedRolesChoices ==
    {SingleRole("admin"), SingleRole("user"), SingleRole("doctor"),
     RoleList(<<"doctor", "nurse">>), RoleList(<<"admin", "user">>),
     RoleList(<<>>)}

\* What await auth.api.userHasPermission(...) does: it rejects, or resolves
\* to a boolean, or resolves to an object { error: null, success }.  success
\* tells whether the user holds every listed permission.
LookupOutcomes ==
    {[resolves |-> FALSE, shape |-> "none", success |-> FALSE]}
    \cup [resolves : {TRUE}, shape : {"boolean", "object"}, success : BOOLEAN]

\* The lookup reports that the user holds the permissions.
reportsHeld(l) == l.resolves /\ l.success

\* JavaScript truthiness of the value the lookup resolved to: an object is
\* truthy.
TruthyValue(l) == l.shape = "object" \/ l.success

\* What await next() does: the downstream stages return, or the promise
\* rejects.
DownstreamOutcomes == {"returns", "throws"}

\* The errors a guard call ends with.
NoError ==
    [isHTTPException |-> FALSE, status |-> 0, message |-> "", cause |-> NoCause]
DownstreamError ==
    [isHTTPException |-> FALSE, status |-> 0, message |-> "downstream",
     cause |-> NoCause]
unauthorized ==
    [isHTTPException |-> TRUE, status |-> Unauthorized,
     message |-> AUTH_MESSAGE.UNAUTHORIZED, cause |-> NoCause]
forbidden ==
    [isHTTPException |-> TRUE, status |-> Forbidden,
     message |-> AUTH_MESSAGE.FORBIDDEN, cause |-> NoCause]

\* The state of a guard call: suspended at an await ("lookup" for await
\* auth.api.userHasPermission(...), "next" for await next()) or settled,
\* whether it returned or threw, what it threw, how often it invoked next
\* and the permission lookup, and whether it is inside the try block.
Suspended(pc, nextCalls, lookupCalls, inTry) ==
    [pc |-> pc, outcome |-> "pending", error |-> NoError,
     nextCalls |-> nextCalls, lookupCalls |-> lookupCalls, inTry |-> inTry]
Returned(nextCalls, lookupCalls) ==
    [pc |-> "settled", outcome |-> "returned", error |-> NoError,
     nextCalls |-> nextCalls, lookupCalls |-> lookupCalls, inTry |-> FALSE]
Threw(err, nextCalls, lookupCalls) ==
    [pc |-> "settled", outcome |-> "threw", error |-> err,
     nextCalls |-> nextCalls, lookupCalls |-> lookupCalls, inTry |-> FALSE]

\* await next(): next is invoked and the guard is suspended until its
\* promise settles.
awaitNext(lookupCalls, inTry) == Suspended("next", 1, lookupCalls, inTry)

\* await auth.api.userHasPermission(...), the first statement of the try
\* block.
awaitLookup == Suspended("lookup", 0, 1, TRUE)

\* The promise of next() settles with d: outside a try block a rejection
\* leaves the guard as it is, inside the try block of permissionGuard and of
\* roleOrPermissionGuard it is caught and thrown again as 403.
nextSettles(r, d) ==
    IF d = "returns" THEN Returned(r.nextCalls, r.lookupCalls)
    ELSE Threw(IF r.inTry THEN forbidden ELSE DownstreamError,
               r.nextCalls, r.lookupCalls)

\* !user
isNoUser(user) == user = NoUser

\* Array.isArray(allowedRoles) ? allowedRoles : [allowedRoles]
rolesOf(allowedRoles) ==
    IF allowedRoles.isArray THEN allowedRoles.list ELSE <<allowedRoles.role>>

\* Mutant: the role as it is, without the default.
userRoleAsIs(user) ==
    IF "role" \in DOMAIN user THEN user.role ELSE ""

\* user.role || 'user'
userRoleOf(user) ==
    IF "role" \in DOMAIN user /\ user.role # "" THEN user.role ELSE "user"

\* roles.includes(userRole)
includes(roles, r) == \E i \in 1..Len(roles) : roles[i] = r

\* Each guard up to its first await.
authGuard(user) ==
    IF isNoUser(user) THEN Threw(unauthorized, 0, 0)
    ELSE awaitNext(0, FALSE)

adminGuard(user) ==
    IF isNoUser(user) \/ ~("role" \in DOMAIN user /\ user.role = "admin")
    THEN Threw(IF isNoUser(user) THEN unauthorized ELSE forbidden, 0, 0)
    ELSE awaitNext(0, FALSE)

roleGuard(allowedRoles, user) ==
    IF isNoUser(user) THEN Threw(unauthorized, 0, 0)
    ELSE IF ~includes(rolesOf(allowedRoles), userRoleOf(user))
         THEN Threw(forbidden, 0, 0)
         ELSE awaitNext(0, FALSE)

permissionGuard(user) ==
    IF isNoUser(user) THEN Threw(unauthorized, 0, 0)
    ELSE awaitLookup

roleOrPermissionGuard(allowedRoles, user) ==
    IF isNoUser(user) THEN Threw(unauthorized, 0, 0)
    ELSE IF includes(rolesOf(allowedRoles), userRoleOf(user))
         THEN awaitNext(0, FALSE)
         ELSE awaitLookup

\* The try block of permissionGuard and of roleOrPermissionGuard after the
\* promise of the lookup has settled with l: a rejection and a falsy value
\* are thrown again as 403 by the catch block, a truthy value leads to
\* await next().
checkPermissions(l) ==
    IF ~l.resolves THEN Threw(forbidden, 0, 1)
    ELSE IF ~TruthyValue(l) THEN Threw(forbidden, 0, 1)
    ELSE awaitNext(1, TRUE)

\* The guard calls drawn: the context, the arguments of the guard and what
\* the promises of the lookup and of next() settle with.
GuardCalls ==
    [pc : {"call"}, user : GuardUsers, allowedRoles : AllowedRolesChoices,
     lookup : LookupOutcomes, downstream : DownstreamOutcomes]

\* The calls drawn for the second request in flight.
GuardPeers ==
    {[pc |-> "call", user |-> [id |-> <<"9">>, role |-> "doctor"],
      allowedRoles |-> SingleRole("admin"),
      lookup |-> [resolves |-> TRUE, shape |-> "boolean", success |-> FALSE],
      downstream |-> "returns"],
     [pc |-> "call", user |-> OtherUser,
      allowedRoles |-> SingleRole("user"),
      lookup |-> [resolves |-> TRUE, shape |-> "object", success |-> TRUE],
      downstream |-> "throws"]}

InitGuard ==
    /\ now = 0
    /\ store = [x \in {} |-> 0]
    /\ options = EmptyOptions
    /\ last = NoRequest
    /\ win = [x \in {} |-> 0]
    /\ run \in {[kind |-> "guards", req |-> <<a, b>>] :
                    a \in GuardCalls, b \in GuardPeers}

\* The record of a guard call: the call, its state and the response
\* app.onError makes of what it throws.
guardRun(c, name, result) ==
    [guard |-> name,
     response |-> IF result.outcome = "threw" THEN onError(result.error)
                  ELSE Downstream("next")]
    @@ result @@ c

\* The router calls a guard for request i, after the requests before it:
\* the guard runs to its first await or to its throw.
callGuard(i, name, result) ==
    /\ run.kind = "guards"
    /\ run.req[i].pc = "call"
    /\ \A j \in 1..(i - 1) : run.req[j].pc # "call"
    /\ run' = [run EXCEPT !.req[i] = guardRun(@, name, result)]
    /\ UNCHANGED <<now, store, options, last, win>>

AuthGuard(i) ==
    callGuard(i, "authGuard", authGuard(run.req[i].user))

AdminGuard(i) ==
    callGuard(i, "adminGuard", adminGuard(run.req[i].user))

RoleGuard(i) ==
    callGuard(i, "roleGuard",
              roleGuard(run.req[i].allowedRoles, run.req[i].user))

PermissionGuard(i) ==
    callGuard(i, "permissionGuard", permissionGuard(run.req[i].user))

RoleOrPermissionGuard(i) ==
    callGuard(i, "roleOrPermissionGuard",
              roleOrPermissionGuard(run.req[i].allowedRoles,
                                    run.req[i].user))

\* The promise of auth.api.userHasPermission settles and the guard of
\* request i goes on in its try block.
GuardLookupSettles(i) ==
    /\ run.kind = "guards"
    /\ run.req[i].pc = "lookup"
    /\ run' = [run EXCEPT !.req[i] =
                guardRun(@, @.guard, checkPermissions(@.lookup))]
    /\ UNCHANGED <<now, store, options, last, win>>

\* The promise of next() settles and the guard of request i returns or
\* throws.
GuardNextSettles(i) ==
    /\ run.kind = "guards"
    /\ run.req[i].pc = "next"
    /\ run' = [run EXCEPT !.req[i] =
                guardRun(@, @.guard, nextSettles(@, @.downstream))]
    /\ UNCHANGED <<now, store, options, last, win>>

NextGuard ==
    \/ \E i \in Slots : AuthGuard(i)
    \/ \E i \in Slots : AdminGuard(i)
    \/ \E i \in Slots : RoleGuard(i)
    \/ \E i \in Slots : PermissionGuard(i)
    \/ \E i \in Slots : RoleOrPermissionGuard(i)
    \/ \E i \in Slots : GuardLookupSettles(i)
    \/ \E i \in Slots : GuardNextSettles(i)

SpecGuard == InitGuard /\ [][NextGuard]_vars

\* The guard calls that have settled.
Guarded(r) == r.pc = "settled"
\* The role of the user of a call, "" when it is unset, and the role the
\* user is checked with.
RoleGiven(r) == IF "role" \in DOMAIN r.user THEN r.user.role ELSE ""
RoleChecked(r) == IF RoleGiven(r) = "" THEN "user" ELSE RoleGiven(r)
RoleAllowed(r) ==
    \E i \in 1..Len(r.allowedRoles.list) :
        r.allowedRoles.list[i] = RoleChecked(r)
RoleMatches(r) ==
    IF r.allowedRoles.isArray THEN RoleAllowed(r)
    ELSE r.allowedRoles.role = RoleChecked(r)

\* C14: every guard answers a context without a user with 401, without
\* invoking next or the permission lookup; 403 is produced only for an
\* authenticated user who lacks the required role or permission; adminGuard
\* invokes next only for a user whose role is 'admin'.  Violated: the
\* permission guards answer 403 to a user the lookup reports to hold the
\* permissions when the promise of next() rejects.
InvC14 ==
    \A i \in Slots : LET r == run.req[i] IN
    Guarded(r) =>
        /\ r.user = NoUser =>
                /\ r.outcome = "threw" /\ r.response.status = Unauthorized
                /\ r.nextCalls = 0 /\ r.lookupCalls = 0
        /\ r.response.status = Forbidden =>
                /\ r.user # NoUser
                /\ r.guard = "adminGuard" => RoleGiven(r) # "admin"
                /\ r.guard = "roleGuard" => ~RoleMatches(r)
                /\ r.guard = "permissionGuard" => ~reportsHeld(r.lookup)
                /\ r.guard = "roleOrPermissionGuard" =>
                        ~RoleMatches(r) /\ ~reportsHeld(r.lookup)
        /\ r.guard = "adminGuard" /\ r.nextCalls > 0 =>
                RoleGiven(r) = "admin"

\* C15: roleGuard invokes next exactly when the role of the authenticated
\* user, 'user' when the role is unset, is one of allowedRoles (a single role
\* being a list of one); every other authenticated user gets 403 and next is
\* not invoked.
InvC15 ==
    \A i \in Slots : LET r == run.req[i] IN
    Guarded(r) /\ r.guard = "roleGuard" /\ r.user # NoUser =>
        /\ r.nextCalls = (IF RoleMatches(r) THEN 1 ELSE 0)
        /\ ~RoleMatches(r) =>
                r.outcome = "threw" /\ r.response.status = Forbidden
        /\ RoleMatches(r) => r.response.status # Forbidden
\* roleGuard('user') has let a user without a role through while the guard
\* of a second request is suspended or settled.
WitnessC15 ==
    /\ run.kind = "guards"
    /\ Guarded(run.req[1]) /\ run.req[1].guard = "roleGuard"
    /\ "role" \notin DOMAIN run.req[1].user
    /\ ~run.req[1].allowedRoles.isArray
    /\ run.req[1].allowedRoles.role = "user"
    /\ run.req[1].nextCalls = 1 /\ run.req[1].outcome = "returned"
    /\ run.req[2].pc # "call"

\* C16: permissionGuard invokes next only when the lookup reports that the
\* user holds the permissions; when the lookup reports that the user lacks
\* one, and when the lookup fails, the guard fails with 403 without invoking
\* next.  Violated: a lookup that resolves to { error: null, success: false }
\* is truthy, and next is invoked.
InvC16 ==
    \A i \in Slots : LET r == run.req[i] IN
    Guarded(r) /\ r.guard = "permissionGuard" /\ r.user # NoUser =>
        /\ r.nextCalls > 0 => reportsHeld(r.lookup)
        /\ ~reportsHeld(r.lookup) =>
                /\ r.outcome = "threw" /\ r.response.status = Forbidden
                /\ r.nextCalls = 0

\* C17: roleOrPermissionGuard invokes next, exactly once, if and only if the
\* role of the authenticated user is in allowedRoles or the lookup reports
\* that the user holds the permissions; when the role matches the lookup is
\* not performed.  Violated: a lookup that resolves to
\* { error: null, success: false } is truthy, and next is invoked.
InvC17 ==
    \A i \in Slots : LET r == run.req[i] IN
    Guarded(r) /\ r.guard = "roleOrPermissionGuard" /\ r.user # NoUser =>
        /\ r.nextCalls =
                (IF RoleMatches(r) \/ reportsHeld(r.lookup) THEN 1 ELSE 0)
        /\ RoleMatches(r) => r.lookupCalls = 0

\* ====================================================== authMiddleware
\* authMiddleware of env.ts and the stage of index.ts that wraps it, called
\* for the requests in flight and suspended at their awaits.

\* Number of session tokens drawn.
MaxSessions == 4

\* c.get('session') when it is null.
NoSession == [token |-> 0, userId |-> <<>>]

\* What await auth.api.getSession(...) does: it rejects, or resolves to null,
\* or resolves to { user, session } of one session.
SessionOutcomes ==
    {[resolves |-> FALSE, found |-> FALSE, user |-> NoUser,
      session |-> NoSession],
     [resolves |-> TRUE, found |-> FALSE, user |-> NoUser,
      session |-> NoSession]}
    \cup {[resolves |-> TRUE, found |-> TRUE, user |-> u,
           session |-> [token |-> t, userId |-> u.id]] :
            u \in GuardUsers \ {NoUser}, t \in 1..MaxSessions}

\* The variables of the context: which of them have been set, and to what.
UnsetVars == [set |-> {}, user |-> NoUser, session |-> NoSession]
setVar(v, name, value) ==
    [v EXCEPT !.set = @ \cup {name}, ![name] = value]

\* The error a rejected getSession throws.
SessionError ==
    [isHTTPException |-> FALSE, status |-> 0, message |-> "getSession",
     cause |-> NoCause]

\* The state of a call of authMiddleware: suspended at an await ("session"
\* for await auth.api.getSession(...), "next" for the promise of next()) or
\* settled, whether its promise resolved, the error it rejected with, how
\* often next was invoked and the context variables next was invoked with.
authResult(pc, outcome, err, nextCalls, atNext) ==
    [pc |-> pc, outcome |-> outcome, error |-> err, nextCalls |-> nextCalls,
     atNext |-> atNext]

\* await auth.api.getSession({ headers })
awaitSession == authResult("session", "pending", NoError, 0, UnsetVars)

\* return next(): next is invoked with the context variables v, and the
\* promise of authMiddleware settles as the promise of next() does.
returnNext(v) == authResult("next", "pending", NoError, 1, v)

\* Mutant: the session variable is left unset when no session is found.
authMiddlewareUserOnly(s) ==
    IF ~s.resolves
    THEN authResult("settled", "threw", SessionError, 0, UnsetVars)
    ELSE IF ~s.found
         THEN returnNext(setVar(UnsetVars, "user", NoUser))
         ELSE returnNext(setVar(setVar(UnsetVars, "user", s.user),
                                "session", s.session))

\* authMiddleware(c, next) after the promise of getSession has settled
\* with s.
authMiddleware(s) ==
    IF ~s.resolves
    THEN authResult("settled", "threw", SessionError, 0, UnsetVars)
    ELSE IF ~s.found
         THEN returnNext(setVar(setVar(UnsetVars, "user", NoUser),
                                "session", NoSession))
         ELSE returnNext(setVar(setVar(UnsetVars, "user", s.user),
                                "session", s.session))

\* The promise of next() settles with d, and with it the promise of
\* authMiddleware.
nextReturned(r, d) ==
    IF d = "returns"
    THEN authResult("settled", "returned", NoError, r.nextCalls, r.atNext)
    ELSE authResult("settled", "threw", DownstreamError, r.nextCalls,
                    r.atNext)

\* c.status(500); return c.json({ error: 'Internal server error', details })
internalServerError ==
    [source |-> "authStage", status |-> InternalServerError,
     message |-> "Internal server error", error |-> NoCause]

\* The stage of index.ts, try { await authMiddleware(c, next) } catch { 500 },
\* after the promise r of authMiddleware has settled.
authStage(r) ==
    IF r.outcome = "threw"
    THEN [r EXCEPT !.outcome = "returned"] @@
         [response |-> internalServerError]
    ELSE r @@ [response |-> Downstream("next")]

\* The calls drawn: what the promises of getSession and of next() settle
\* with.
AuthCalls ==
    [pc : {"call"}, lookup : SessionOutcomes,
     downstream : DownstreamOutcomes]

\* The calls drawn for the second request in flight.
AuthPeers ==
    {[pc |-> "call",
      lookup |-> [resolves |-> TRUE, found |-> FALSE, user |-> NoUser,
                  session |-> NoSession],
      downstream |-> "returns"],
     [pc |-> "call",
      lookup |-> [resolves |-> TRUE, found |-> TRUE, user |-> OtherUser,
                  session |-> [token |-> MaxSessions,
                               userId |-> OtherUser.id]],
      downstream |-> "throws"]}

InitAuth ==
    /\ now = 0
    /\ store = [x \in {} |-> 0]
    /\ options = EmptyOptions
    /\ last = NoRequest
    /\ win = [x \in {} |-> 0]
    /\ run \in {[kind |-> "auth", req |-> <<a, b>>] :
                    a \in AuthCalls, b \in AuthPeers}

\* Request i reaches the middleware, after the requests before it:
\* authMiddleware calls getSession and is suspended at its await; the stage
\* of index.ts is suspended at await authMiddleware(c, next).
callAuth(i, name) ==
    /\ run.kind = "auth"
    /\ run.req[i].pc = "call"
    /\ \A j \in 1..(i - 1) : run.req[j].pc # "call"
    /\ run' = [run EXCEPT !.req[i] =
                [stage |-> name, response |-> Downstream("none")]
                @@ awaitSession @@ @]
    /\ UNCHANGED <<now, store, options, last, win>>

\* authMiddleware is called as a middleware of its own.
AuthMiddleware(i) == callAuth(i, "authMiddleware")

\* The stage of index.ts handles a request.
AuthStage(i) == callAuth(i, "authStage")

\* The record of a call whose authMiddleware is in state r: when it has
\* settled, the stage of index.ts resumes and makes its response.
authRun(c, r) ==
    IF r.pc = "settled" /\ c.stage = "authStage" THEN authStage(r) @@ c
    ELSE r @@ c

\* The promise of getSession settles: authMiddleware of request i sets the
\* context variables and invokes next, or rejects.
SessionSettles(i) ==
    /\ run.kind = "auth"
    /\ run.req[i].pc = "session"
    /\ run' = [run EXCEPT !.req[i] = authRun(@, authMiddleware(@.lookup))]
    /\ UNCHANGED <<now, store, options, last, win>>

\* The promise of next() settles for request i.
AuthNextSettles(i) ==
    /\ run.kind = "auth"
    /\ run.req[i].pc = "next"
    /\ run' = [run EXCEPT !.req[i] =
                authRun(@, nextReturned(@, @.downstream))]
    /\ UNCHANGED <<now, store, options, last, win>>

NextAuth ==
    \/ \E i \in Slots : AuthMiddleware(i)
    \/ \E i \in Slots : AuthStage(i)
    \/ \E i \in Slots : SessionSettles(i)
    \/ \E i \in Slots : AuthNextSettles(i)

SpecAuth == InitAuth /\ [][NextAuth]_vars

\* The calls that have settled, and the context variables at next().
Authed(r) == r.pc = "settled"
BothSet(r) == r.atNext.set = {"user", "session"}
BothNull(r) == r.atNext.user = NoUser /\ r.atNext.session = NoSession
BothOfSession(r) ==
    /\ r.atNext.user = r.lookup.user
    /\ r.atNext.session = r.lookup.session
    /\ r.atNext.session.userId = r.atNext.user.id

\* C18 as stated: authMiddleware invokes next exactly once for every
\* request, after setting both context variables, user and session being
\* both null or both of the same session.  Violated: when getSession rejects
\* next is not invoked.
InvC18Stated ==
    \A i \in Slots : LET r == run.req[i] IN
    Authed(r) =>
        /\ r.nextCalls = 1
        /\ BothSet(r)
        /\ BothNull(r) \/ BothOfSession(r)

\* C18 amended: whenever the session lookup completes, with or without a
\* session, authMiddleware invokes next exactly once after setting both
\* context variables (both null without a session, both of the one session
\* with it) and rejects only if next does; when the lookup fails next is not
\* invoked, authMiddleware rejects and the stage of index.ts answers 500.
InvC18 ==
    \A i \in Slots : LET r == run.req[i] IN
    /\ r.pc = "next" =>
            /\ r.nextCalls = 1
            /\ BothSet(r)
            /\ IF r.lookup.found THEN BothOfSession(r) ELSE BothNull(r)
    /\ Authed(r) =>
        /\ r.lookup.resolves =>
                /\ r.nextCalls = 1
                /\ BothSet(r)
                /\ IF r.lookup.found THEN BothOfSession(r) ELSE BothNull(r)
                /\ r.stage = "authMiddleware" =>
                        (r.outcome = "threw" <=> r.downstream = "throws")
        /\ ~r.lookup.resolves =>
                /\ r.nextCalls = 0
                /\ r.stage = "authMiddleware" => r.outcome = "threw"
                /\ r.stage = "authStage" =>
                        r.response.status = InternalServerError
        /\ r.response.status \notin {Unauthorized, Forbidden}
\* The stage of index.ts has invoked next with both variables null for a
\* request without a session, while a second request is in flight at
\* getSession.
WitnessC18 ==
    /\ run.kind = "auth"
    /\ run.req[1].pc = "settled" /\ run.req[1].stage = "authStage"
    /\ run.req[1].lookup.resolves /\ ~run.req[1].lookup.found
    /\ run.req[1].nextCalls = 1 /\ BothSet(run.req[1])
    /\ BothNull(run.req[1])
    /\ run.req[2].pc = "session"

\* ========================================================= application
\* The middleware of index.ts, composed in the order of registration: each
\* stage runs the stages after it when it invokes next.

\* combinedLogger() is imported from lib/logger by index.ts; its definition
\* is not among the sources.  The project's guide describes it as the
\* logger applied to all requests, doing "request/response tracking": it is
\* one stage that logs the request, invokes next and logs the response.
combinedLogger == "combinedLogger"

\* Mutant: the auth stage is registered before the rate limiter.
StagesAuthFirst ==
    <<combinedLogger, "authStage", "rateLimit", "cors", "prettyJSON",
      "routes">>

\* app.use(...) and app.route(...) in the order of index.ts.
Stages ==
    <<combinedLogger, "rateLimit", "cors", "prettyJSON", "authStage",
      "routes">>

\* What the route handler of a request does: it returns a response, or it
\* throws an Error, or it throws a value that is no Error.
RouteOutcomes == {"returns", "throws Error", "throws value"}
\* The route of a request that has not reached its route handler.
NotRun == "not run"

\* What a stage does before it invokes next.
before(stage) ==
    CASE stage = combinedLogger -> <<"log incoming">>
      [] stage = "rateLimit" -> <<"rateLimit">>
      [] stage = "cors" -> <<"cors">>
      [] stage = "authStage" -> <<"getSession">>
      [] stage = "routes" -> <<"route handler">>
      [] OTHER -> <<>>

\* What a stage throws by itself: the limiter an HTTPException, which is an
\* Error, for a request it does not admit (line 479 of the limiter); the
\* route handler what the request makes it throw.  The auth stage throws
\* nothing: the whole of it is inside try/catch.
throws(stage, req) ==
    CASE stage = "rateLimit" -> IF req.admitted THEN "none" ELSE "Error"
      [] stage = "routes" ->
            IF req.route = "throws Error" THEN "Error"
            ELSE IF req.route = "throws value" THEN "value"
            ELSE "none"
      [] OTHER -> "none"

\* Whether a stage invokes next for the request: the limiter when it admits
\* the request, cors unless the request is a preflight, the auth stage when
\* the session lookup completes; the route handler is the last stage.
callsNext(stage, req) ==
    CASE stage = "rateLimit" -> req.admitted
      [] stage = "cors" -> req.method # "OPTIONS"
      [] stage = "authStage" -> req.session.resolves
      [] stage = "routes" -> FALSE
      [] OTHER -> TRUE

\* What the promise of the stages from the i-th on settles with.  An Error
\* thrown by a stage is handed to app.onError (index.ts, lines 93-109) at
\* that stage and its promise resolves; any other value thrown rejects the
\* promise, and so the promise of next() of every stage before it up to one
\* that catches it: the auth stage, whose await is inside try/catch
\* (index.ts, lines 38-46).
RECURSIVE settles(_, _)
settles(i, req) ==
    IF i > Len(Stages) THEN "returns"
    ELSE LET stage == Stages[i]
         IN  IF throws(stage, req) = "Error" THEN "returns"
             ELSE IF throws(stage, req) = "value" THEN "throws"
             ELSE IF stage = "authStage" \/ ~callsNext(stage, req)
                  THEN "returns"
                  ELSE settles(i + 1, req)

\* What the promise of next() settles with for the i-th stage.
nextOutcome(i, req) == settles(i + 1, req)

\* What the promise awaited by the i-th stage settles with: the promise of
\* next(), and for the auth stage the one of authMiddleware(c, next), which
\* rejects when getSession rejects and else settles as next() does.
awaited(i, req) ==
    IF Stages[i] = "authStage" /\ ~req.session.resolves THEN "throws"
    ELSE IF callsNext(Stages[i], req) THEN nextOutcome(i, req)
    ELSE "returns"

\* What a stage does after the promise it awaits has settled with d: the
\* logger logs the response; the auth stage answers 500 in its catch block.
\* What combinedLogger does when the promise of next() rejects is not
\* described, and no value is given for it: the stages after it never
\* reject, as the auth stage catches what the routes throw.
after(stage, d) ==
    CASE stage = combinedLogger /\ d = "returns" -> <<"log completed">>
      [] stage = "authStage" ->
            IF d = "throws" THEN <<"auth catch">> ELSE <<>>
      [] stage \notin {combinedLogger, "authStage"} -> <<>>

\* compose: what the stages from the i-th on do with the request.
RECURSIVE dispatch(_, _)
dispatch(i, req) ==
    IF i > Len(Stages) THEN <<>>
    ELSE LET stage == Stages[i]
         IN  before(stage)
             \o (IF callsNext(stage, req) THEN dispatch(i + 1, req)
                 ELSE <<>>)
             \o (IF throws(stage, req) = "Error" THEN <<"onError">>
                 ELSE IF throws(stage, req) = "value" THEN <<>>
                 ELSE after(stage, awaited(i, req)))

\* The stage that makes the response of the request, among the stages from
\* the i-th on: app.onError for an Error thrown, the auth stage when its
\* catch block runs, else the last stage the request reaches.
RECURSIVE responderFrom(_, _)
responderFrom(i, req) ==
    LET stage == Stages[i]
    IN  IF throws(stage, req) = "Error" THEN "onError"
        ELSE IF stage = "authStage" /\ awaited(i, req) = "throws"
             THEN "authStage"
        ELSE IF callsNext(stage, req) /\ i < Len(Stages)
             THEN responderFrom(i + 1, req)
        ELSE stage
responder(req) == responderFrom(1, req)

Methods == {"GET", "OPTIONS"}

\* The outcomes of the session lookup of a request.
AppSessions ==
    {s \in SessionOutcomes :
        ~s.found \/ (s.user = AdminUser /\ s.session.token = 1)}

\* The session of a request for which getSession has not completed.
NotLookedUp == [resolves |-> FALSE, pending |-> TRUE]

\* The requests of the application: requests of one address, each with its
\* method; the outcome of its session lookup is known when the lookup
\* completes, and what its route handler does when the handler has run.
AppContexts ==
    { [xff |-> <<"1">>, realIp |-> Undefined, user |-> NoUser,
       method |-> m, session |-> NotLookedUp, route |-> NotRun] :
        m \in Methods }

\* The key of the requests drawn.
AppKey == CHOOSE k \in {keyGenerator(c) : c \in AppContexts} : TRUE
\* The numbers of requests the client has sent in its window when the
\* application is first looked at, all of them evaluated one at a time, and
\* the times at which that window ends.
AppCounts == (limit - MaxFlight + 1)..limit
AppWindowEnds == {TickMs, windowMs}

\* app = createApp() with app.use('*', rateLimit()): no options.  The
\* limiter has seen no request yet, or it has admitted k requests of the
\* client in a window that is still open.
InitApp ==
    /\ now = 0
    /\ options = EmptyOptions
    /\ last = NoRequest
    /\ run = NoFlight(MaxFlight)
    /\ \/ /\ store = [x \in {} |-> 0]
          /\ win = [x \in {} |-> 0]
       \/ \E k \in AppCounts, e \in AppWindowEnds :
            /\ store = [x \in {AppKey} |-> [count |-> k, resetTime |-> e]]
            /\ win = [x \in {AppKey} |->
                        [end |-> e, seen |-> k, admitted |-> k]]

\* The request as the stages after the limiter see it.
appRequest(o) ==
    [method |-> o.ctx.method, session |-> o.ctx.session,
     route |-> o.ctx.route, admitted |-> o.nextCalls = 1]

\* Whether the stages invoked for the request do e.
does(o, e) ==
    LET trace == dispatch(1, appRequest(o))
    IN  \E k \in 1..Len(trace) : trace[k] = e

\* The stages invoked for the request call auth.api.getSession, which
\* authMiddleware awaits.
awaitsSession(o) == does(o, "getSession")

\* The limiter resumes after await store.set / store.increment: a request
\* it rejects is complete; for one it admits the stages after it run, and
\* the request is suspended at `await auth.api.getSession(...)` when they
\* reach the auth stage.
AppAfterStore(i) ==
    /\ run.req[i].pc = "store"
    /\ LET o == completed(run.req[i])
       IN  IF awaitsSession(o)
           THEN /\ run' = [run EXCEPT !.req[i].pc = "session"]
                /\ last' = NoRequest
           ELSE /\ run' = [run EXCEPT !.req[i] = IdleSlot]
                /\ last' = o
    /\ UNCHANGED <<now, store, options, win>>

\* The session lookup completes with outcome se: authMiddleware sets the
\* context variables and returns next(), and the request is in its route
\* handler; when the lookup rejects, the catch block of the auth stage
\* answers and the stages run to their end.
AppAfterSession(i, se) ==
    /\ run.req[i].pc = "session"
    /\ LET r == [run.req[i] EXCEPT !.ctx.session = se]
       IN  IF does(completed(r), "route handler")
           THEN /\ run' = [run EXCEPT !.req[i] = [r EXCEPT !.pc = "route"]]
                /\ last' = NoRequest
           ELSE /\ run' = [run EXCEPT !.req[i] = IdleSlot]
                /\ last' = completed(r)
    /\ UNCHANGED <<now, store, options, win>>

\* The route handler does ro and the stages run to their end.
AppAfterRoute(i, ro) ==
    /\ run.req[i].pc = "route"
    /\ last' = completed([run.req[i] EXCEPT !.ctx.route = ro])
    /\ run' = [run EXCEPT !.req[i] = IdleSlot]
    /\ UNCHANGED <<now, store, options, win>>

\* The requests followed in a window: its first MaxSeen ones, and the ones
\* from MaxSeen before the limit to the first one beyond it.
AppSeenBound(c) ==
    IF WinOf(keyGenerator(c)).seen >= limit - MaxSeen THEN limit + 1
    ELSE MaxSeen

\* A request arrives.
AppArrive(i, c) == Arrive(i, c, AppSeenBound(c))

NextApp ==
    \/ Tick
    \/ Cleanup
    \/ \E i \in Slots, c \in AppContexts : AppArrive(i, c)
    \/ \E i \in Slots : AfterGet(i)
    \/ \E i \in Slots : AppAfterStore(i)
    \/ \E i \in Slots, se \in AppSessions : AppAfterSession(i, se)
    \/ \E i \in Slots, ro \in RouteOutcomes : AppAfterRoute(i, ro)

SpecApp == InitApp /\ [][NextApp]_vars

\* The stages of the claim, by what they do, in the claimed order.
StageEvents ==
    <<"log incoming", "rateLimit", "cors", "getSession", "route handler">>
IsStageEvent(e) == \E i \in 1..Len(StageEvents) : StageEvents[i] = e
\* The request just completed, as the stages see it, and what the stages
\* did with it.
AppDone == appRequest(last)
AppTrace == dispatch(1, AppDone)
Entered == SelectSeq(AppTrace, IsStageEvent)
Did(e) == \E i \in 1..Len(AppTrace) : AppTrace[i] = e

\* C19: a request passes the stages in the order logger, global rate
\* limiter (100 requests per minute), CORS, auth middleware, routes, and an
\* admitted request with a completed session lookup passes all of them; a
\* request rejected by the limiter triggers no session lookup and reaches no
\* route handler, and the logger logs its arrival and its completion.
InvC19 ==
    Handled =>
        /\ limit = 100 /\ windowMs = 60 * MsPerSec
        /\ OneAtATime => (AppDone.admitted <=> win[last.key].seen <= 100)
        /\ Len(Entered) >= 2
        /\ Entered = SubSeq(StageEvents, 1, Len(Entered))
        /\ (AppDone.admitted /\ AppDone.method # "OPTIONS"
            /\ AppDone.session.resolves) => Entered = StageEvents
        /\ ~AppDone.admitted =>
                /\ ~Did("getSession") /\ ~Did("route handler")
                /\ Did("log incoming") /\ Did("log completed")
                /\ responder(AppDone) = "onError"
                /\ last.response.status = TooManyRequests
WitnessC19 ==
    /\ Handled /\ ~AppDone.admitted
    /\ OneAtATime /\ win[last.key].seen = 101
    /\ AppTrace = <<"log incoming", "rateLimit", "onError", "log completed">>
    /\ last.response.status = TooManyRequests

\* ==================================================== requestBodyLogger
\* requestBodyLogger of logger.ts over bounded JSON bodies.  A JSON value is
\* [t |-> "null"], [t |-> "str", s |-> string], [t |-> "arr", a |-> sequence
\* of values] or [t |-> "obj", f |-> function from keys to values]; a key is
\* the sequence of its characters, a character being one code point.  A
\* character that a string of the module cannot carry is written by its
\* code point, "U+212A" for the Kelvin sign: the characters of Basic Latin
\* that are not printable, the quotation mark, the backslash and the grave
\* accent, and the characters beyond Basic Latin one of whose UTF-16 code
\* units has a low byte under 128.

\* Deepest nesting of the bodies drawn.
MaxDepth == 2

\* The characters that String.prototype.toLowerCase maps to another
\* character (Unicode 17.0), in the order of their code points, and that
\* character at the same position.
UpperCase ==
    <<"A", "B", "C", "D", "E", "F", "G", "H", "I", "J", "K", "L", "M", "N",
      "O", "P", "Q", "R", "S", "T", "U", "V", "W", "X", "Y", "Z", "À", "Á",
      "Â", "Ã", "Ä", "Å", "Æ", "Ç", "È", "É", "Ê", "Ë", "Ì", "Í", "Î", "Ï",
      "Ð", "Ñ", "Ò", "Ó", "Ô", "Õ", "Ö", "Ø", "Ù", "Ú", "Û", "Ü", "Ý", "Þ",
      "U+0100", "U+0102", "U+0104", "U+0106", "U+0108", "U+010A", "U+010C",
      "U+010E", "U+0110", "U+0112", "U+0114", "U+0116", "U+0118", "U+011A",
      "U+011C", "U+011E", "U+0120", "U+0122", "U+0124", "U+0126", "U+0128",
      "U+012A", "U+012C", "U+012E", "U+0132", "U+0134", "U+0136", "U+0139",
      "U+013B", "U+013D", "U+013F", "U+0141", "U+0143", "U+0145", "U+0147",
      "U+014A", "U+014C", "U+014E", "U+0150", "U+0152", "U+0154", "U+0156",
      "U+0158", "U+015A", "U+015C", "U+015E", "U+0160", "U+0162", "U+0164",
      "U+0166", "U+0168", "U+016A", "U+016C", "U+016E", "U+0170", "U+0172",
      "U+0174", "U+0176", "U+0178", "U+0179", "U+017B", "U+017D", "Ɓ", "Ƃ",
      "Ƅ", "Ɔ", "Ƈ", "Ɖ", "Ɗ", "Ƌ", "Ǝ", "Ə", "Ɛ", "Ƒ", "Ɠ", "Ɣ", "Ɩ", "Ɨ",
      "Ƙ", "Ɯ", "Ɲ", "Ɵ", "Ơ", "Ƣ", "Ƥ", "Ʀ", "Ƨ", "Ʃ", "Ƭ", "Ʈ", "Ư", "Ʊ",
      "Ʋ", "Ƴ", "Ƶ", "Ʒ", "Ƹ", "Ƽ", "Ǆ", "ǅ", "Ǉ", "ǈ", "Ǌ", "ǋ", "Ǎ", "Ǐ",
      "Ǒ", "Ǔ", "Ǖ", "Ǘ", "Ǚ", "Ǜ", "Ǟ", "Ǡ", "Ǣ", "Ǥ", "Ǧ", "Ǩ", "Ǫ", "Ǭ",
      "Ǯ", "Ǳ", "ǲ", "Ǵ", "Ƕ", "Ƿ", "Ǹ", "Ǻ", "Ǽ", "Ǿ", "U+0200", "U+0202",
      "U+0204", "U+0206", "U+0208", "U+020A", "U+020C", "U+020E", "U+0210",
      "U+0212", "U+0214", "U+0216", "U+0218", "U+021A", "U+021C", "U+021E",
      "U+0220", "U+0222", "U+0224", "U+0226", "U+0228", "U+022A", "U+022C",
      "U+022E", "U+0230", "U+0232", "U+023A", "U+023B", "U+023D", "U+023E",
      "U+0241", "U+0243", "U+0244", "U+0245", "U+0246", "U+0248", "U+024A",
      "U+024C", "U+024E", "U+0370", "U+0372", "U+0376", "U+037F", "Ά", "Έ",
      "Ή", "Ί", "Ό", "Ύ", "Ώ", "Α", "Β", "Γ", "Δ", "Ε", "Ζ", "Η", "Θ", "Ι",
      "Κ", "Λ", "Μ", "Ν", "Ξ", "Ο", "Π", "Ρ", "Σ", "Τ", "Υ", "Φ", "Χ", "Ψ",
      "Ω", "Ϊ", "Ϋ", "Ϗ", "Ϙ", "Ϛ", "Ϝ", "Ϟ", "Ϡ", "Ϣ", "Ϥ", "Ϧ", "Ϩ", "Ϫ",
      "Ϭ", "Ϯ", "ϴ", "Ϸ", "Ϲ", "Ϻ", "Ͻ", "Ͼ", "Ͽ", "U+0400", "U+0401",
      "U+0402", "U+0403", "U+0404", "U+0405", "U+0406", "U+0407", "U+0408",
      "U+0409", "U+040A", "U+040B", "U+040C", "U+040D", "U+040E", "U+040F",
      "U+0410", "U+0411", "U+0412", "U+0413", "U+0414", "U+0415", "U+0416",
      "U+0417", "U+0418", "U+0419", "U+041A", "U+041B", "U+041C", "U+041D",
      "U+041E", "U+041F", "U+0420", "U+0421", "U+0422", "U+0423", "U+0424",
      "U+0425", "U+0426", "U+0427", "U+0428", "U+0429", "U+042A", "U+042B",
      "U+042C", "U+042D", "U+042E", "U+042F", "U+0460", "U+0462", "U+0464",
      "U+0466", "U+0468", "U+046A", "U+046C", "U+046E", "U+0470", "U+0472",
      "U+0474", "U+0476", "U+0478", "U+047A", "U+047C", "U+047E", "Ҁ", "Ҋ",
      "Ҍ", "Ҏ", "Ґ", "Ғ", "Ҕ", "Җ", "Ҙ", "Қ", "Ҝ", "Ҟ", "Ҡ", "Ң", "Ҥ", "Ҧ",
      "Ҩ", "Ҫ", "Ҭ", "Ү", "Ұ", "Ҳ", "Ҵ", "Ҷ", "Ҹ", "Һ", "Ҽ", "Ҿ", "Ӏ", "Ӂ",
      "Ӄ", "Ӆ", "Ӈ", "Ӊ", "Ӌ", "Ӎ", "Ӑ", "Ӓ", "Ӕ", "Ӗ", "Ә", "Ӛ", "Ӝ", "Ӟ",
      "Ӡ", "Ӣ", "Ӥ", "Ӧ", "Ө", "Ӫ", "Ӭ", "Ӯ", "Ӱ", "Ӳ", "Ӵ", "Ӷ", "Ӹ", "Ӻ",
      "Ӽ", "Ӿ", "U+0500", "U+0502", "U+0504", "U+0506", "U+0508", "U+050A",
      "U+050C", "U+050E", "U+0510", "U+0512", "U+0514", "U+0516", "U+0518",
      "U+051A", "U+051C", "U+051E", "U+0520", "U+0522", "U+0524", "U+0526",
      "U+0528", "U+052A", "U+052C", "U+052E", "U+0531", "U+0532", "U+0533",
      "U+0534", "U+0535", "U+0536", "U+0537", "U+0538", "U+0539", "U+053A",
      "U+053B", "U+053C", "U+053D", "U+053E", "U+053F", "U+0540", "U+0541",
      "U+0542", "U+0543", "U+0544", "U+0545", "U+0546", "U+0547", "U+0548",
      "U+0549", "U+054A", "U+054B", "U+054C", "U+054D", "U+054E", "U+054F",
      "U+0550", "U+0551", "U+0552", "U+0553", "U+0554", "U+0555", "U+0556",
      "Ⴀ", "Ⴁ", "Ⴂ", "Ⴃ", "Ⴄ", "Ⴅ", "Ⴆ", "Ⴇ", "Ⴈ", "Ⴉ", "Ⴊ", "Ⴋ", "Ⴌ", "Ⴍ",
      "Ⴎ", "Ⴏ", "Ⴐ", "Ⴑ", "Ⴒ", "Ⴓ", "Ⴔ", "Ⴕ", "Ⴖ", "Ⴗ", "Ⴘ", "Ⴙ", "Ⴚ", "Ⴛ",
      "Ⴜ", "Ⴝ", "Ⴞ", "Ⴟ", "Ⴠ", "Ⴡ", "Ⴢ", "Ⴣ", "Ⴤ", "Ⴥ", "Ⴧ", "Ⴭ", "Ꭰ", "Ꭱ",
      "Ꭲ", "Ꭳ", "Ꭴ", "Ꭵ", "Ꭶ", "Ꭷ", "Ꭸ", "Ꭹ", "Ꭺ", "Ꭻ", "Ꭼ", "Ꭽ", "Ꭾ", "Ꭿ",
      "Ꮀ", "Ꮁ", "Ꮂ", "Ꮃ", "Ꮄ", "Ꮅ", "Ꮆ", "Ꮇ", "Ꮈ", "Ꮉ", "Ꮊ", "Ꮋ", "Ꮌ", "Ꮍ",
      "Ꮎ", "Ꮏ", "Ꮐ", "Ꮑ", "Ꮒ", "Ꮓ", "Ꮔ", "Ꮕ", "Ꮖ", "Ꮗ", "Ꮘ", "Ꮙ", "Ꮚ", "Ꮛ",
      "Ꮜ", "Ꮝ", "Ꮞ", "Ꮟ", "Ꮠ", "Ꮡ", "Ꮢ", "Ꮣ", "Ꮤ", "Ꮥ", "Ꮦ", "Ꮧ", "Ꮨ", "Ꮩ",
      "Ꮪ", "Ꮫ", "Ꮬ", "Ꮭ", "Ꮮ", "Ꮯ", "Ꮰ", "Ꮱ", "Ꮲ", "Ꮳ", "Ꮴ", "Ꮵ", "Ꮶ", "Ꮷ",
      "Ꮸ", "Ꮹ", "Ꮺ", "Ꮻ", "Ꮼ", "Ꮽ", "Ꮾ", "Ꮿ", "Ᏸ", "Ᏹ", "Ᏺ", "Ᏻ", "Ᏼ", "Ᏽ",
      "Ᲊ", "Ა", "Ბ", "Გ", "Დ", "Ე", "Ვ", "Ზ", "Თ", "Ი", "Კ", "Ლ", "Მ", "Ნ",
      "Ო", "Პ", "Ჟ", "Რ", "Ს", "Ტ", "Უ", "Ფ", "Ქ", "Ღ", "Ყ", "Შ", "Ჩ", "Ც",
      "Ძ", "Წ", "Ჭ", "Ხ", "Ჯ", "Ჰ", "Ჱ", "Ჲ", "Ჳ", "Ჴ", "Ჵ", "Ჶ", "Ჷ", "Ჸ",
      "Ჹ", "Ჺ", "Ჽ", "Ჾ", "Ჿ", "U+1E00", "U+1E02", "U+1E04", "U+1E06",
      "U+1E08", "U+1E0A", "U+1E0C", "U+1E0E", "U+1E10", "U+1E12", "U+1E14",
      "U+1E16", "U+1E18", "U+1E1A", "U+1E1C", "U+1E1E", "U+1E20", "U+1E22",
      "U+1E24", "U+1E26", "U+1E28", "U+1E2A", "U+1E2C", "U+1E2E", "U+1E30",
      "U+1E32", "U+1E34", "U+1E36", "U+1E38", "U+1E3A", "U+1E3C", "U+1E3E",
      "U+1E40", "U+1E42", "U+1E44", "U+1E46", "U+1E48", "U+1E4A", "U+1E4C",
      "U+1E4E", "U+1E50", "U+1E52", "U+1E54", "U+1E56", "U+1E58", "U+1E5A",
      "U+1E5C", "U+1E5E", "U+1E60", "U+1E62", "U+1E64", "U+1E66", "U+1E68",
      "U+1E6A", "U+1E6C", "U+1E6E", "U+1E70", "U+1E72", "U+1E74", "U+1E76",
      "U+1E78", "U+1E7A", "U+1E7C", "U+1E7E", "Ẁ", "Ẃ", "Ẅ", "Ẇ", "Ẉ", "Ẋ",
      "Ẍ", "Ẏ", "Ẑ", "Ẓ", "Ẕ", "ẞ", "Ạ", "Ả", "Ấ", "Ầ", "Ẩ", "Ẫ", "Ậ", "Ắ",
      "Ằ", "Ẳ", "Ẵ", "Ặ", "Ẹ", "Ẻ", "Ẽ", "Ế", "Ề", "Ể", "Ễ", "Ệ", "Ỉ", "Ị",
      "Ọ", "Ỏ", "Ố", "Ồ", "Ổ", "Ỗ", "Ộ", "Ớ", "Ờ", "Ở", "Ỡ", "Ợ", "Ụ", "Ủ",
      "Ứ", "Ừ", "Ử", "Ữ", "Ự", "Ỳ", "Ỵ", "Ỷ", "Ỹ", "Ỻ", "Ỽ", "Ỿ", "U+1F08",
      "U+1F09", "U+1F0A", "U+1F0B", "U+1F0C", "U+1F0D", "U+1F0E", "U+1F0F",
      "U+1F18", "U+1F19", "U+1F1A", "U+1F1B", "U+1F1C", "U+1F1D", "U+1F28",
      "U+1F29", "U+1F2A", "U+1F2B", "U+1F2C", "U+1F2D", "U+1F2E", "U+1F2F",
      "U+1F38", "U+1F39", "U+1F3A", "U+1F3B", "U+1F3C", "U+1F3D", "U+1F3E",
      "U+1F3F", "U+1F48", "U+1F49", "U+1F4A", "U+1F4B", "U+1F4C", "U+1F4D",
      "U+1F59", "U+1F5B", "U+1F5D", "U+1F5F", "U+1F68", "U+1F69", "U+1F6A",
      "U+1F6B", "U+1F6C", "U+1F6D", "U+1F6E", "U+1F6F", "ᾈ", "ᾉ", "ᾊ", "ᾋ",
      "ᾌ", "ᾍ", "ᾎ", "ᾏ", "ᾘ", "ᾙ", "ᾚ", "ᾛ", "ᾜ", "ᾝ", "ᾞ", "ᾟ", "ᾨ", "ᾩ",
      "ᾪ", "ᾫ", "ᾬ", "ᾭ", "ᾮ", "ᾯ", "Ᾰ", "Ᾱ", "Ὰ", "Ά", "ᾼ", "Ὲ", "Έ", "Ὴ",
      "Ή", "ῌ", "Ῐ", "Ῑ", "Ὶ", "Ί", "Ῠ", "Ῡ", "Ὺ", "Ύ", "Ῥ", "Ὸ", "Ό", "Ὼ",
      "Ώ", "ῼ", "U+2126", "U+212A", "U+212B", "U+2132", "U+2160", "U+2161",
      "U+2162", "U+2163", "U+2164", "U+2165", "U+2166", "U+2167", "U+2168",
      "U+2169", "U+216A", "U+216B", "U+216C", "U+216D", "U+216E", "U+216F",
      "Ↄ", "Ⓐ", "Ⓑ", "Ⓒ", "Ⓓ", "Ⓔ", "Ⓕ", "Ⓖ", "Ⓗ", "Ⓘ", "Ⓙ", "Ⓚ", "Ⓛ", "Ⓜ",
      "Ⓝ", "Ⓞ", "Ⓟ", "Ⓠ", "Ⓡ", "Ⓢ", "Ⓣ", "Ⓤ", "Ⓥ", "Ⓦ", "Ⓧ", "Ⓨ", "Ⓩ",
      "U+2C00", "U+2C01", "U+2C02", "U+2C03", "U+2C04", "U+2C05", "U+2C06",
      "U+2C07", "U+2C08", "U+2C09", "U+2C0A", "U+2C0B", "U+2C0C", "U+2C0D",
      "U+2C0E", "U+2C0F", "U+2C10", "U+2C11", "U+2C12", "U+2C13", "U+2C14",
      "U+2C15", "U+2C16", "U+2C17", "U+2C18", "U+2C19", "U+2C1A", "U+2C1B",
      "U+2C1C", "U+2C1D", "U+2C1E", "U+2C1F", "U+2C20", "U+2C21", "U+2C22",
      "U+2C23", "U+2C24", "U+2C25", "U+2C26", "U+2C27", "U+2C28", "U+2C29",
      "U+2C2A", "U+2C2B", "U+2C2C", "U+2C2D", "U+2C2E", "U+2C2F", "U+2C60",
      "U+2C62", "U+2C63", "U+2C64", "U+2C67", "U+2C69", "U+2C6B", "U+2C6D",
      "U+2C6E", "U+2C6F", "U+2C70", "U+2C72", "U+2C75", "U+2C7E", "U+2C7F",
      "Ⲁ", "Ⲃ", "Ⲅ", "Ⲇ", "Ⲉ", "Ⲋ", "Ⲍ", "Ⲏ", "Ⲑ", "Ⲓ", "Ⲕ", "Ⲗ", "Ⲙ", "Ⲛ",
      "Ⲝ", "Ⲟ", "Ⲡ", "Ⲣ", "Ⲥ", "Ⲧ", "Ⲩ", "Ⲫ", "Ⲭ", "Ⲯ", "Ⲱ", "Ⲳ", "Ⲵ", "Ⲷ",
      "Ⲹ", "Ⲻ", "Ⲽ", "Ⲿ", "Ⳁ", "Ⳃ", "Ⳅ", "Ⳇ", "Ⳉ", "Ⳋ", "Ⳍ", "Ⳏ", "Ⳑ", "Ⳓ",
      "Ⳕ", "Ⳗ", "Ⳙ", "Ⳛ", "Ⳝ", "Ⳟ", "Ⳡ", "Ⳣ", "Ⳬ", "Ⳮ", "Ⳳ", "U+A640",
      "U+A642", "U+A644", "U+A646", "U+A648", "U+A64A", "U+A64C", "U+A64E",
      "U+A650", "U+A652", "U+A654", "U+A656", "U+A658", "U+A65A", "U+A65C",
      "U+A65E", "U+A660", "U+A662", "U+A664", "U+A666", "U+A668", "U+A66A",
      "U+A66C", "Ꚁ", "Ꚃ", "Ꚅ", "Ꚇ", "Ꚉ", "Ꚋ", "Ꚍ", "Ꚏ", "Ꚑ", "Ꚓ", "Ꚕ", "Ꚗ",
      "Ꚙ", "Ꚛ", "U+A722", "U+A724", "U+A726", "U+A728", "U+A72A", "U+A72C",
      "U+A72E", "U+A732", "U+A734", "U+A736", "U+A738", "U+A73A", "U+A73C",
      "U+A73E", "U+A740", "U+A742", "U+A744", "U+A746", "U+A748", "U+A74A",
      "U+A74C", "U+A74E", "U+A750", "U+A752", "U+A754", "U+A756", "U+A758",
      "U+A75A", "U+A75C", "U+A75E", "U+A760", "U+A762", "U+A764", "U+A766",
      "U+A768", "U+A76A", "U+A76C", "U+A76E", "U+A779", "U+A77B", "U+A77D",
      "U+A77E", "Ꞁ", "Ꞃ", "Ꞅ", "Ꞇ", "Ꞌ", "Ɥ", "Ꞑ", "Ꞓ", "Ꞗ", "Ꞙ", "Ꞛ", "Ꞝ",
      "Ꞟ", "Ꞡ", "Ꞣ", "Ꞥ", "Ꞧ", "Ꞩ", "Ɦ", "Ɜ", "Ɡ", "Ɬ", "Ɪ", "Ʞ", "Ʇ", "Ʝ",
      "Ꭓ", "Ꞵ", "Ꞷ", "Ꞹ", "Ꞻ", "Ꞽ", "Ꞿ", "Ꟁ", "Ꟃ", "Ꞔ", "Ʂ", "Ᶎ", "Ꟈ", "Ꟊ",
      "Ɤ", "Ꟍ", "꟎", "Ꟑ", "꟒", "꟔", "Ꟗ", "Ꟙ", "Ꟛ", "Ƛ", "Ꟶ", "U+FF21",
      "U+FF22", "U+FF23", "U+FF24", "U+FF25", "U+FF26", "U+FF27", "U+FF28",
      "U+FF29", "U+FF2A", "U+FF2B", "U+FF2C", "U+FF2D", "U+FF2E", "U+FF2F",
      "U+FF30", "U+FF31", "U+FF32", "U+FF33", "U+FF34", "U+FF35", "U+FF36",
      "U+FF37", "U+FF38", "U+FF39", "U+FF3A", "U+10400", "U+10401",
      "U+10402", "U+10403", "U+10404", "U+10405", "U+10406", "U+10407",
      "U+10408", "U+10409", "U+1040A", "U+1040B", "U+1040C", "U+1040D",
      "U+1040E", "U+1040F", "U+10410", "U+10411", "U+10412", "U+10413",
      "U+10414", "U+10415", "U+10416", "U+10417", "U+10418", "U+10419",
      "U+1041A", "U+1041B", "U+1041C", "U+1041D", "U+1041E", "U+1041F",
      "U+10420", "U+10421", "U+10422", "U+10423", "U+10424", "U+10425",
      "U+10426", "U+10427", "U+104B0", "U+104B1", "U+104B2", "U+104B3",
      "U+104B4", "U+104B5", "U+104B6", "U+104B7", "U+104B8", "U+104B9",
      "U+104BA", "U+104BB", "U+104BC", "U+104BD", "U+104BE", "U+104BF",
      "U+104C0", "U+104C1", "U+104C2", "U+104C3", "U+104C4", "U+104C5",
      "U+104C6", "U+104C7", "U+104C8", "U+104C9", "U+104CA", "U+104CB",
      "U+104CC", "U+104CD", "U+104CE", "U+104CF", "U+104D0", "U+104D1",
      "U+104D2", "U+104D3", "U+10570", "U+10571", "U+10572", "U+10573",
      "U+10574", "U+10575", "U+10576", "U+10577", "U+10578", "U+10579",
      "U+1057A", "U+1057C", "U+1057D", "U+1057E", "U+1057F", "U+10580",
      "U+10581", "U+10582", "U+10583", "U+10584", "U+10585", "U+10586",
      "U+10587", "U+10588", "U+10589", "U+1058A", "U+1058C", "U+1058D",
      "U+1058E", "U+1058F", "U+10590", "U+10591", "U+10592", "U+10594",
      "U+10595", "U+10C80", "U+10C81", "U+10C82", "U+10C83", "U+10C84",
      "U+10C85", "U+10C86", "U+10C87", "U+10C88", "U+10C89", "U+10C8A",
      "U+10C8B", "U+10C8C", "U+10C8D", "U+10C8E", "U+10C8F", "U+10C90",
      "U+10C91", "U+10C92", "U+10C93", "U+10C94", "U+10C95", "U+10C96",
      "U+10C97", "U+10C98", "U+10C99", "U+10C9A", "U+10C9B", "U+10C9C",
      "U+10C9D", "U+10C9E", "U+10C9F", "U+10CA0", "U+10CA1", "U+10CA2",
      "U+10CA3", "U+10CA4", "U+10CA5", "U+10CA6", "U+10CA7", "U+10CA8",
      "U+10CA9", "U+10CAA", "U+10CAB", "U+10CAC", "U+10CAD", "U+10CAE",
      "U+10CAF", "U+10CB0", "U+10CB1", "U+10CB2", "U+10D50", "U+10D51",
      "U+10D52", "U+10D53", "U+10D54", "U+10D55", "U+10D56", "U+10D57",
      "U+10D58", "U+10D59", "U+10D5A", "U+10D5B", "U+10D5C", "U+10D5D",
      "U+10D5E", "U+10D5F", "U+10D60", "U+10D61", "U+10D62", "U+10D63",
      "U+10D64", "U+10D65", "U+118A0", "U+118A1", "U+118A2", "U+118A3",
      "U+118A4", "U+118A5", "U+118A6", "U+118A7", "U+118A8", "U+118A9",
      "U+118AA", "U+118AB", "U+118AC", "U+118AD", "U+118AE", "U+118AF",
      "U+118B0", "U+118B1", "U+118B2", "U+118B3", "U+118B4", "U+118B5",
      "U+118B6", "U+118B7", "U+118B8", "U+118B9", "U+118BA", "U+118BB",
      "U+118BC", "U+118BD", "U+118BE", "U+118BF", "U+16E40", "U+16E41",
      "U+16E42", "U+16E43", "U+16E44", "U+16E45", "U+16E46", "U+16E47",
      "U+16E48", "U+16E49", "U+16E4A", "U+16E4B", "U+16E4C", "U+16E4D",
      "U+16E4E", "U+16E4F", "U+16E50", "U+16E51", "U+16E52", "U+16E53",
      "U+16E54", "U+16E55", "U+16E56", "U+16E57", "U+16E58", "U+16E59",
      "U+16E5A", "U+16E5B", "U+16E5C", "U+16E5D", "U+16E5E", "U+16E5F",
      "U+16EA0", "U+16EA1", "U+16EA2", "U+16EA3", "U+16EA4", "U+16EA5",
      "U+16EA6", "U+16EA7", "U+16EA8", "U+16EA9", "U+16EAA", "U+16EAB",
      "U+16EAC", "U+16EAD", "U+16EAE", "U+16EAF", "U+16EB0", "U+16EB1",
      "U+16EB2", "U+16EB3", "U+16EB4", "U+16EB5", "U+16EB6", "U+16EB7",
      "U+16EB8", "U+1E900", "U+1E901", "U+1E902", "U+1E903", "U+1E904",
      "U+1E905", "U+1E906", "U+1E907", "U+1E908", "U+1E909", "U+1E90A",
      "U+1E90B", "U+1E90C", "U+1E90D", "U+1E90E", "U+1E90F", "U+1E910",
      "U+1E911", "U+1E912", "U+1E913", "U+1E914", "U+1E915", "U+1E916",
      "U+1E917", "U+1E918", "U+1E919", "U+1E91A", "U+1E91B", "U+1E91C",
      "U+1E91D", "U+1E91E", "U+1E91F", "U+1E920", "U+1E921">>
LowerCase ==
    <<"a", "b", "c", "d", "e", "f", "g", "h", "i", "j", "k", "l", "m", "n",
      "o", "p", "q", "r", "s", "t", "u", "v", "w", "x", "y", "z", "à", "á",
      "â", "ã", "ä", "å", "æ", "ç", "è", "é", "ê", "ë", "ì", "í", "î", "ï",
      "ð", "ñ", "ò", "ó", "ô", "õ", "ö", "ø", "ù", "ú", "û", "ü", "ý", "þ",
      "U+0101", "U+0103", "U+0105", "U+0107", "U+0109", "U+010B", "U+010D",
      "U+010F", "U+0111", "U+0113", "U+0115", "U+0117", "U+0119", "U+011B",
      "U+011D", "U+011F", "U+0121", "U+0123", "U+0125", "U+0127", "U+0129",
      "U+012B", "U+012D", "U+012F", "U+0133", "U+0135", "U+0137", "U+013A",
      "U+013C", "U+013E", "U+0140", "U+0142", "U+0144", "U+0146", "U+0148",
      "U+014B", "U+014D", "U+014F", "U+0151", "U+0153", "U+0155", "U+0157",
      "U+0159", "U+015B", "U+015D", "U+015F", "U+0161", "U+0163", "U+0165",
      "U+0167", "U+0169", "U+016B", "U+016D", "U+016F", "U+0171", "U+0173",
      "U+0175", "U+0177", "ÿ", "U+017A", "U+017C", "U+017E", "U+0253", "ƃ",
      "ƅ", "U+0254", "ƈ", "U+0256", "U+0257", "ƌ", "ǝ", "U+0259", "U+025B",
      "ƒ", "U+0260", "U+0263", "U+0269", "U+0268", "ƙ", "U+026F", "U+0272",
      "U+0275", "ơ", "ƣ", "ƥ", "ʀ", "ƨ", "ʃ", "ƭ", "ʈ", "ư", "ʊ", "ʋ", "ƴ",
      "ƶ", "ʒ", "ƹ", "ƽ", "ǆ", "ǆ", "ǉ", "ǉ", "ǌ", "ǌ", "ǎ", "ǐ", "ǒ", "ǔ",
      "ǖ", "ǘ", "ǚ", "ǜ", "ǟ", "ǡ", "ǣ", "ǥ", "ǧ", "ǩ", "ǫ", "ǭ", "ǯ", "ǳ",
      "ǳ", "ǵ", "ƕ", "ƿ", "ǹ", "ǻ", "ǽ", "ǿ", "U+0201", "U+0203", "U+0205",
      "U+0207", "U+0209", "U+020B", "U+020D", "U+020F", "U+0211", "U+0213",
      "U+0215", "U+0217", "U+0219", "U+021B", "U+021D", "U+021F", "ƞ",
      "U+0223", "U+0225", "U+0227", "U+0229", "U+022B", "U+022D", "U+022F",
      "U+0231", "U+0233", "U+2C65", "U+023C", "ƚ", "U+2C66", "U+0242", "ƀ",
      "ʉ", "ʌ", "U+0247", "U+0249", "U+024B", "U+024D", "U+024F", "U+0371",
      "U+0373", "U+0377", "ϳ", "ά", "έ", "ή", "ί", "ό", "ύ", "ώ", "α", "β",
      "γ", "δ", "ε", "ζ", "η", "θ", "ι", "κ", "λ", "μ", "ν", "ξ", "ο", "π",
      "ρ", "σ", "τ", "υ", "φ", "χ", "ψ", "ω", "ϊ", "ϋ", "ϗ", "ϙ", "ϛ", "ϝ",
      "ϟ", "ϡ", "ϣ", "ϥ", "ϧ", "ϩ", "ϫ", "ϭ", "ϯ", "θ", "ϸ", "ϲ", "ϻ",
      "U+037B", "U+037C", "U+037D", "U+0450", "U+0451", "U+0452", "U+0453",
      "U+0454", "U+0455", "U+0456", "U+0457", "U+0458", "U+0459", "U+045A",
      "U+045B", "U+045C", "U+045D", "U+045E", "U+045F", "U+0430", "U+0431",
      "U+0432", "U+0433", "U+0434", "U+0435", "U+0436", "U+0437", "U+0438",
      "U+0439", "U+043A", "U+043B", "U+043C", "U+043D", "U+043E", "U+043F",
      "U+0440", "U+0441", "U+0442", "U+0443", "U+0444", "U+0445", "U+0446",
      "U+0447", "U+0448", "U+0449", "U+044A", "U+044B", "U+044C", "U+044D",
      "U+044E", "U+044F", "U+0461", "U+0463", "U+0465", "U+0467", "U+0469",
      "U+046B", "U+046D", "U+046F", "U+0471", "U+0473", "U+0475", "U+0477",
      "U+0479", "U+047B", "U+047D", "U+047F", "ҁ", "ҋ", "ҍ", "ҏ", "ґ", "ғ",
      "ҕ", "җ", "ҙ", "қ", "ҝ", "ҟ", "ҡ", "ң", "ҥ", "ҧ", "ҩ", "ҫ", "ҭ", "ү",
      "ұ", "ҳ", "ҵ", "ҷ", "ҹ", "һ", "ҽ", "ҿ", "ӏ", "ӂ", "ӄ", "ӆ", "ӈ", "ӊ",
      "ӌ", "ӎ", "ӑ", "ӓ", "ӕ", "ӗ", "ә", "ӛ", "ӝ", "ӟ", "ӡ", "ӣ", "ӥ", "ӧ",
      "ө", "ӫ", "ӭ", "ӯ", "ӱ", "ӳ", "ӵ", "ӷ", "ӹ", "ӻ", "ӽ", "ӿ", "U+0501",
      "U+0503", "U+0505", "U+0507", "U+0509", "U+050B", "U+050D", "U+050F",
      "U+0511", "U+0513", "U+0515", "U+0517", "U+0519", "U+051B", "U+051D",
      "U+051F", "U+0521", "U+0523", "U+0525", "U+0527", "U+0529", "U+052B",
      "U+052D", "U+052F", "U+0561", "U+0562", "U+0563", "U+0564", "U+0565",
      "U+0566", "U+0567", "U+0568", "U+0569", "U+056A", "U+056B", "U+056C",
      "U+056D", "U+056E", "U+056F", "U+0570", "U+0571", "U+0572", "U+0573",
      "U+0574", "U+0575", "U+0576", "U+0577", "U+0578", "U+0579", "U+057A",
      "U+057B", "U+057C", "U+057D", "U+057E", "U+057F", "ր", "ց", "ւ", "փ",
      "ք", "օ", "ֆ", "U+2D00", "U+2D01", "U+2D02", "U+2D03", "U+2D04",
      "U+2D05", "U+2D06", "U+2D07", "U+2D08", "U+2D09", "U+2D0A", "U+2D0B",
      "U+2D0C", "U+2D0D", "U+2D0E", "U+2D0F", "U+2D10", "U+2D11", "U+2D12",
      "U+2D13", "U+2D14", "U+2D15", "U+2D16", "U+2D17", "U+2D18", "U+2D19",
      "U+2D1A", "U+2D1B", "U+2D1C", "U+2D1D", "U+2D1E", "U+2D1F", "U+2D20",
      "U+2D21", "U+2D22", "U+2D23", "U+2D24", "U+2D25", "U+2D27", "U+2D2D",
      "U+AB70", "U+AB71", "U+AB72", "U+AB73", "U+AB74", "U+AB75", "U+AB76",
      "U+AB77", "U+AB78", "U+AB79", "U+AB7A", "U+AB7B", "U+AB7C", "U+AB7D",
      "U+AB7E", "U+AB7F", "ꮀ", "ꮁ", "ꮂ", "ꮃ", "ꮄ", "ꮅ", "ꮆ", "ꮇ", "ꮈ", "ꮉ",
      "ꮊ", "ꮋ", "ꮌ", "ꮍ", "ꮎ", "ꮏ", "ꮐ", "ꮑ", "ꮒ", "ꮓ", "ꮔ", "ꮕ", "ꮖ", "ꮗ",
      "ꮘ", "ꮙ", "ꮚ", "ꮛ", "ꮜ", "ꮝ", "ꮞ", "ꮟ", "ꮠ", "ꮡ", "ꮢ", "ꮣ", "ꮤ", "ꮥ",
      "ꮦ", "ꮧ", "ꮨ", "ꮩ", "ꮪ", "ꮫ", "ꮬ", "ꮭ", "ꮮ", "ꮯ", "ꮰ", "ꮱ", "ꮲ", "ꮳ",
      "ꮴ", "ꮵ", "ꮶ", "ꮷ", "ꮸ", "ꮹ", "ꮺ", "ꮻ", "ꮼ", "ꮽ", "ꮾ", "ꮿ", "ᏸ", "ᏹ",
      "ᏺ", "ᏻ", "ᏼ", "ᏽ", "ᲊ", "ა", "ბ", "გ", "დ", "ე", "ვ", "ზ", "თ", "ი",
      "კ", "ლ", "მ", "ნ", "ო", "პ", "ჟ", "რ", "ს", "ტ", "უ", "ფ", "ქ", "ღ",
      "ყ", "შ", "ჩ", "ც", "ძ", "წ", "ჭ", "ხ", "ჯ", "ჰ", "ჱ", "ჲ", "ჳ", "ჴ",
      "ჵ", "ჶ", "ჷ", "ჸ", "ჹ", "ჺ", "ჽ", "ჾ", "ჿ", "U+1E01", "U+1E03",
      "U+1E05", "U+1E07", "U+1E09", "U+1E0B", "U+1E0D", "U+1E0F", "U+1E11",
      "U+1E13", "U+1E15", "U+1E17", "U+1E19", "U+1E1B", "U+1E1D", "U+1E1F",
      "U+1E21", "U+1E23", "U+1E25", "U+1E27", "U+1E29", "U+1E2B", "U+1E2D",
      "U+1E2F", "U+1E31", "U+1E33", "U+1E35", "U+1E37", "U+1E39", "U+1E3B",
      "U+1E3D", "U+1E3F", "U+1E41", "U+1E43", "U+1E45", "U+1E47", "U+1E49",
      "U+1E4B", "U+1E4D", "U+1E4F", "U+1E51", "U+1E53", "U+1E55", "U+1E57",
      "U+1E59", "U+1E5B", "U+1E5D", "U+1E5F", "U+1E61", "U+1E63", "U+1E65",
      "U+1E67", "U+1E69", "U+1E6B", "U+1E6D", "U+1E6F", "U+1E71", "U+1E73",
      "U+1E75", "U+1E77", "U+1E79", "U+1E7B", "U+1E7D", "U+1E7F", "ẁ", "ẃ",
      "ẅ", "ẇ", "ẉ", "ẋ", "ẍ", "ẏ", "ẑ", "ẓ", "ẕ", "ß", "ạ", "ả", "ấ", "ầ",
      "ẩ", "ẫ", "ậ", "ắ", "ằ", "ẳ", "ẵ", "ặ", "ẹ", "ẻ", "ẽ", "ế", "ề", "ể",
      "ễ", "ệ", "ỉ", "ị", "ọ", "ỏ", "ố", "ồ", "ổ", "ỗ", "ộ", "ớ", "ờ", "ở",
      "ỡ", "ợ", "ụ", "ủ", "ứ", "ừ", "ử", "ữ", "ự", "ỳ", "ỵ", "ỷ", "ỹ", "ỻ",
      "ỽ", "ỿ", "U+1F00", "U+1F01", "U+1F02", "U+1F03", "U+1F04", "U+1F05",
      "U+1F06", "U+1F07", "U+1F10", "U+1F11", "U+1F12", "U+1F13", "U+1F14",
      "U+1F15", "U+1F20", "U+1F21", "U+1F22", "U+1F23", "U+1F24", "U+1F25",
      "U+1F26", "U+1F27", "U+1F30", "U+1F31", "U+1F32", "U+1F33", "U+1F34",
      "U+1F35", "U+1F36", "U+1F37", "U+1F40", "U+1F41", "U+1F42", "U+1F43",
      "U+1F44", "U+1F45", "U+1F51", "U+1F53", "U+1F55", "U+1F57", "U+1F60",
      "U+1F61", "U+1F62", "U+1F63", "U+1F64", "U+1F65", "U+1F66", "U+1F67",
      "ᾀ", "ᾁ", "ᾂ", "ᾃ", "ᾄ", "ᾅ", "ᾆ", "ᾇ", "ᾐ", "ᾑ", "ᾒ", "ᾓ", "ᾔ", "ᾕ",
      "ᾖ", "ᾗ", "ᾠ", "ᾡ", "ᾢ", "ᾣ", "ᾤ", "ᾥ", "ᾦ", "ᾧ", "ᾰ", "ᾱ", "U+1F70",
      "U+1F71", "ᾳ", "U+1F72", "U+1F73", "U+1F74", "U+1F75", "ῃ", "ῐ", "ῑ",
      "U+1F76", "U+1F77", "ῠ", "ῡ", "U+1F7A", "U+1F7B", "ῥ", "U+1F78",
      "U+1F79", "U+1F7C", "U+1F7D", "ῳ", "ω", "k", "å", "U+214E", "U+2170",
      "U+2171", "U+2172", "U+2173", "U+2174", "U+2175", "U+2176", "U+2177",
      "U+2178", "U+2179", "U+217A", "U+217B", "U+217C", "U+217D", "U+217E",
      "U+217F", "ↄ", "ⓐ", "ⓑ", "ⓒ", "ⓓ", "ⓔ", "ⓕ", "ⓖ", "ⓗ", "ⓘ", "ⓙ", "ⓚ",
      "ⓛ", "ⓜ", "ⓝ", "ⓞ", "ⓟ", "ⓠ", "ⓡ", "ⓢ", "ⓣ", "ⓤ", "ⓥ", "ⓦ", "ⓧ", "ⓨ",
      "ⓩ", "U+2C30", "U+2C31", "U+2C32", "U+2C33", "U+2C34", "U+2C35",
      "U+2C36", "U+2C37", "U+2C38", "U+2C39", "U+2C3A", "U+2C3B", "U+2C3C",
      "U+2C3D", "U+2C3E", "U+2C3F", "U+2C40", "U+2C41", "U+2C42", "U+2C43",
      "U+2C44", "U+2C45", "U+2C46", "U+2C47", "U+2C48", "U+2C49", "U+2C4A",
      "U+2C4B", "U+2C4C", "U+2C4D", "U+2C4E", "U+2C4F", "U+2C50", "U+2C51",
      "U+2C52", "U+2C53", "U+2C54", "U+2C55", "U+2C56", "U+2C57", "U+2C58",
      "U+2C59", "U+2C5A", "U+2C5B", "U+2C5C", "U+2C5D", "U+2C5E", "U+2C5F",
      "U+2C61", "U+026B", "U+1D7D", "U+027D", "U+2C68", "U+2C6A", "U+2C6C",
      "U+0251", "U+0271", "U+0250", "U+0252", "U+2C73", "U+2C76", "U+023F",
      "U+0240", "ⲁ", "ⲃ", "ⲅ", "ⲇ", "ⲉ", "ⲋ", "ⲍ", "ⲏ", "ⲑ", "ⲓ", "ⲕ", "ⲗ",
      "ⲙ", "ⲛ", "ⲝ", "ⲟ", "ⲡ", "ⲣ", "ⲥ", "ⲧ", "ⲩ", "ⲫ", "ⲭ", "ⲯ", "ⲱ", "ⲳ",
      "ⲵ", "ⲷ", "ⲹ", "ⲻ", "ⲽ", "ⲿ", "ⳁ", "ⳃ", "ⳅ", "ⳇ", "ⳉ", "ⳋ", "ⳍ", "ⳏ",
      "ⳑ", "ⳓ", "ⳕ", "ⳗ", "ⳙ", "ⳛ", "ⳝ", "ⳟ", "ⳡ", "ⳣ", "ⳬ", "ⳮ", "ⳳ",
      "U+A641", "U+A643", "U+A645", "U+A647", "U+A649", "U+A64B", "U+A64D",
      "U+A64F", "U+A651", "U+A653", "U+A655", "U+A657", "U+A659", "U+A65B",
      "U+A65D", "U+A65F", "U+A661", "U+A663", "U+A665", "U+A667", "U+A669",
      "U+A66B", "U+A66D", "ꚁ", "ꚃ", "ꚅ", "ꚇ", "ꚉ", "ꚋ", "ꚍ", "ꚏ", "ꚑ", "ꚓ",
      "ꚕ", "ꚗ", "ꚙ", "ꚛ", "U+A723", "U+A725", "U+A727", "U+A729", "U+A72B",
      "U+A72D", "U+A72F", "U+A733", "U+A735", "U+A737", "U+A739", "U+A73B",
      "U+A73D", "U+A73F", "U+A741", "U+A743", "U+A745", "U+A747", "U+A749",
      "U+A74B", "U+A74D", "U+A74F", "U+A751", "U+A753", "U+A755", "U+A757",
      "U+A759", "U+A75B", "U+A75D", "U+A75F", "U+A761", "U+A763", "U+A765",
      "U+A767", "U+A769", "U+A76B", "U+A76D", "U+A76F", "U+A77A", "U+A77C",
      "U+1D79", "U+A77F", "ꞁ", "ꞃ", "ꞅ", "ꞇ", "ꞌ", "U+0265", "ꞑ", "ꞓ", "ꞗ",
      "ꞙ", "ꞛ", "ꞝ", "ꞟ", "ꞡ", "ꞣ", "ꞥ", "ꞧ", "ꞩ", "U+0266", "U+025C",
      "U+0261", "U+026C", "U+026A", "ʞ", "ʇ", "ʝ", "U+AB53", "ꞵ", "ꞷ", "ꞹ",
      "ꞻ", "ꞽ", "ꞿ", "ꟁ", "ꟃ", "ꞔ", "ʂ", "ᶎ", "ꟈ", "ꟊ", "U+0264", "ꟍ", "꟏",
      "ꟑ", "ꟓ", "ꟕ", "ꟗ", "ꟙ", "ꟛ", "ƛ", "ꟶ", "U+FF41", "U+FF42", "U+FF43",
      "U+FF44", "U+FF45", "U+FF46", "U+FF47", "U+FF48", "U+FF49", "U+FF4A",
      "U+FF4B", "U+FF4C", "U+FF4D", "U+FF4E", "U+FF4F", "U+FF50", "U+FF51",
      "U+FF52", "U+FF53", "U+FF54", "U+FF55", "U+FF56", "U+FF57", "U+FF58",
      "U+FF59", "U+FF5A", "U+10428", "U+10429", "U+1042A", "U+1042B",
      "U+1042C", "U+1042D", "U+1042E", "U+1042F", "U+10430", "U+10431",
      "U+10432", "U+10433", "U+10434", "U+10435", "U+10436", "U+10437",
      "U+10438", "U+10439", "U+1043A", "U+1043B", "U+1043C", "U+1043D",
      "U+1043E", "U+1043F", "U+10440", "U+10441", "U+10442", "U+10443",
      "U+10444", "U+10445", "U+10446", "U+10447", "U+10448", "U+10449",
      "U+1044A", "U+1044B", "U+1044C", "U+1044D", "U+1044E", "U+1044F",
      "U+104D8", "U+104D9", "U+104DA", "U+104DB", "U+104DC", "U+104DD",
      "U+104DE", "U+104DF", "U+104E0", "U+104E1", "U+104E2", "U+104E3",
      "U+104E4", "U+104E5", "U+104E6", "U+104E7", "U+104E8", "U+104E9",
      "U+104EA", "U+104EB", "U+104EC", "U+104ED", "U+104EE", "U+104EF",
      "U+104F0", "U+104F1", "U+104F2", "U+104F3", "U+104F4", "U+104F5",
      "U+104F6", "U+104F7", "U+104F8", "U+104F9", "U+104FA", "U+104FB",
      "U+10597", "U+10598", "U+10599", "U+1059A", "U+1059B", "U+1059C",
      "U+1059D", "U+1059E", "U+1059F", "U+105A0", "U+105A1", "U+105A3",
      "U+105A4", "U+105A5", "U+105A6", "U+105A7", "U+105A8", "U+105A9",
      "U+105AA", "U+105AB", "U+105AC", "U+105AD", "U+105AE", "U+105AF",
      "U+105B0", "U+105B1", "U+105B3", "U+105B4", "U+105B5", "U+105B6",
      "U+105B7", "U+105B8", "U+105B9", "U+105BB", "U+105BC", "U+10CC0",
      "U+10CC1", "U+10CC2", "U+10CC3", "U+10CC4", "U+10CC5", "U+10CC6",
      "U+10CC7", "U+10CC8", "U+10CC9", "U+10CCA", "U+10CCB", "U+10CCC",
      "U+10CCD", "U+10CCE", "U+10CCF", "U+10CD0", "U+10CD1", "U+10CD2",
      "U+10CD3", "U+10CD4", "U+10CD5", "U+10CD6", "U+10CD7", "U+10CD8",
      "U+10CD9", "U+10CDA", "U+10CDB", "U+10CDC", "U+10CDD", "U+10CDE",
      "U+10CDF", "U+10CE0", "U+10CE1", "U+10CE2", "U+10CE3", "U+10CE4",
      "U+10CE5", "U+10CE6", "U+10CE7", "U+10CE8", "U+10CE9", "U+10CEA",
      "U+10CEB", "U+10CEC", "U+10CED", "U+10CEE", "U+10CEF", "U+10CF0",
      "U+10CF1", "U+10CF2", "U+10D70", "U+10D71", "U+10D72", "U+10D73",
      "U+10D74", "U+10D75", "U+10D76", "U+10D77", "U+10D78", "U+10D79",
      "U+10D7A", "U+10D7B", "U+10D7C", "U+10D7D", "U+10D7E", "U+10D7F",
      "U+10D80", "U+10D81", "U+10D82", "U+10D83", "U+10D84", "U+10D85",
      "U+118C0", "U+118C1", "U+118C2", "U+118C3", "U+118C4", "U+118C5",
      "U+118C6", "U+118C7", "U+118C8", "U+118C9", "U+118CA", "U+118CB",
      "U+118CC", "U+118CD", "U+118CE", "U+118CF", "U+118D0", "U+118D1",
      "U+118D2", "U+118D3", "U+118D4", "U+118D5", "U+118D6", "U+118D7",
      "U+118D8", "U+118D9", "U+118DA", "U+118DB", "U+118DC", "U+118DD",
      "U+118DE", "U+118DF", "U+16E60", "U+16E61", "U+16E62", "U+16E63",
      "U+16E64", "U+16E65", "U+16E66", "U+16E67", "U+16E68", "U+16E69",
      "U+16E6A", "U+16E6B", "U+16E6C", "U+16E6D", "U+16E6E", "U+16E6F",
      "U+16E70", "U+16E71", "U+16E72", "U+16E73", "U+16E74", "U+16E75",
      "U+16E76", "U+16E77", "U+16E78", "U+16E79", "U+16E7A", "U+16E7B",
      "U+16E7C", "U+16E7D", "U+16E7E", "U+16E7F", "U+16EBB", "U+16EBC",
      "U+16EBD", "U+16EBE", "U+16EBF", "U+16EC0", "U+16EC1", "U+16EC2",
      "U+16EC3", "U+16EC4", "U+16EC5", "U+16EC6", "U+16EC7", "U+16EC8",
      "U+16EC9", "U+16ECA", "U+16ECB", "U+16ECC", "U+16ECD", "U+16ECE",
      "U+16ECF", "U+16ED0", "U+16ED1", "U+16ED2", "U+16ED3", "U+1E922",
      "U+1E923", "U+1E924", "U+1E925", "U+1E926", "U+1E927", "U+1E928",
      "U+1E929", "U+1E92A", "U+1E92B", "U+1E92C", "U+1E92D", "U+1E92E",
      "U+1E92F", "U+1E930", "U+1E931", "U+1E932", "U+1E933", "U+1E934",
      "U+1E935", "U+1E936", "U+1E937", "U+1E938", "U+1E939", "U+1E93A",
      "U+1E93B", "U+1E93C", "U+1E93D", "U+1E93E", "U+1E93F", "U+1E940",
      "U+1E941", "U+1E942", "U+1E943">>

\* U+0130, whose lower case is two characters, and the sigmas.
CapitalIWithDot == "U+0130"
CombiningDotAbove == "U+0307"
CapitalSigma == "Σ"
FinalSigma == "ς"

\* The characters with the Unicode property Cased that toLowerCase maps to
\* themselves and that no character is mapped to.
OtherCased ==
    {"ª", "µ", "º", "U+0131", "U+0138", "U+0149", "U+017F", "ƍ", "ƪ", "ƫ",
     "ƺ", "ƾ", "ǰ", "U+0221", "U+0234", "U+0235", "U+0236", "U+0237",
     "U+0238", "U+0239", "U+0255", "U+0258", "U+025A", "U+025D", "U+025E",
     "U+025F", "U+0262", "U+0267", "U+026D", "U+026E", "U+0270", "U+0273",
     "U+0274", "U+0276", "U+0277", "U+0278", "U+0279", "U+027A", "U+027B",
     "U+027C", "U+027E", "U+027F", "ʁ", "ʄ", "ʅ", "ʆ", "ʍ", "ʎ", "ʏ", "ʐ",
     "ʑ", "ʓ", "ʖ", "ʗ", "ʘ", "ʙ", "ʚ", "ʛ", "ʜ", "ʟ", "ʠ", "ʡ", "ʢ", "ʣ",
     "ʤ", "ʥ", "ʦ", "ʧ", "ʨ", "ʩ", "ʪ", "ʫ", "ʬ", "ʭ", "ʮ", "ʯ", "ΐ", "ΰ",
     "ϐ", "ϑ", "ϒ", "ϓ", "ϔ", "ϕ", "ϖ", "ϰ", "ϱ", "ϵ", "ϼ", "U+0560", "և",
     "ֈ", "ᲀ", "ᲁ", "ᲂ", "ᲃ", "ᲄ", "ᲅ", "ᲆ", "ᲇ", "ᲈ", "U+1D00", "U+1D01",
     "U+1D02", "U+1D03", "U+1D04", "U+1D05", "U+1D06", "U+1D07", "U+1D08",
     "U+1D09", "U+1D0A", "U+1D0B", "U+1D0C", "U+1D0D", "U+1D0E", "U+1D0F",
     "U+1D10", "U+1D11", "U+1D12", "U+1D13", "U+1D14", "U+1D15", "U+1D16",
     "U+1D17", "U+1D18", "U+1D19", "U+1D1A", "U+1D1B", "U+1D1C", "U+1D1D",
     "U+1D1E", "U+1D1F", "U+1D20", "U+1D21", "U+1D22", "U+1D23", "U+1D24",
     "U+1D25", "U+1D26", "U+1D27", "U+1D28", "U+1D29", "U+1D2A", "U+1D2B",
     "U+1D6B", "U+1D6C", "U+1D6D", "U+1D6E", "U+1D6F", "U+1D70", "U+1D71",
     "U+1D72", "U+1D73", "U+1D74", "U+1D75", "U+1D76", "U+1D77", "U+1D7A",
     "U+1D7B", "U+1D7C", "U+1D7E", "U+1D7F", "ᶀ", "ᶁ", "ᶂ", "ᶃ", "ᶄ", "ᶅ",
     "ᶆ", "ᶇ", "ᶈ", "ᶉ", "ᶊ", "ᶋ", "ᶌ", "ᶍ", "ᶏ", "ᶐ", "ᶑ", "ᶒ", "ᶓ", "ᶔ",
     "ᶕ", "ᶖ", "ᶗ", "ᶘ", "ᶙ", "ᶚ", "ẖ", "ẗ", "ẘ", "ẙ", "ẚ", "ẛ", "ẜ", "ẝ",
     "ẟ", "U+1F50", "U+1F52", "U+1F54", "U+1F56", "ᾲ", "ᾴ", "ᾶ", "ᾷ", "ι",
     "ῂ", "ῄ", "ῆ", "ῇ", "ῒ", "ΐ", "ῖ", "ῗ", "ῢ", "ΰ", "ῤ", "ῦ", "ῧ", "ῲ",
     "ῴ", "ῶ", "ῷ", "U+2102", "U+2107", "U+210A", "U+210B", "U+210C",
     "U+210D", "U+210E", "U+210F", "U+2110", "U+2111", "U+2112", "U+2113",
     "U+2115", "U+2119", "U+211A", "U+211B", "U+211C", "U+211D", "U+2124",
     "U+2128", "U+212C", "U+212D", "U+212F", "U+2130", "U+2131", "U+2133",
     "U+2134", "U+2139", "U+213C", "U+213D", "U+213E", "U+213F", "U+2145",
     "U+2146", "U+2147", "U+2148", "U+2149", "U+2C71", "U+2C74", "U+2C77",
     "U+2C78", "U+2C79", "U+2C7A", "U+2C7B", "ⳤ", "U+A730", "U+A731",
     "U+A771", "U+A772", "U+A773", "U+A774", "U+A775", "U+A776", "U+A777",
     "U+A778", "ꞎ", "ꞕ", "ꞯ", "ꟺ", "U+AB30", "U+AB31", "U+AB32", "U+AB33",
     "U+AB34", "U+AB35", "U+AB36", "U+AB37", "U+AB38", "U+AB39", "U+AB3A",
     "U+AB3B", "U+AB3C", "U+AB3D", "U+AB3E", "U+AB3F", "U+AB40", "U+AB41",
     "U+AB42", "U+AB43", "U+AB44", "U+AB45", "U+AB46", "U+AB47", "U+AB48",
     "U+AB49", "U+AB4A", "U+AB4B", "U+AB4C", "U+AB4D", "U+AB4E", "U+AB4F",
     "U+AB50", "U+AB51", "U+AB52", "U+AB54", "U+AB55", "U+AB56", "U+AB57",
     "U+AB58", "U+AB59", "U+AB5A", "U+AB60", "U+AB61", "U+AB62", "U+AB63",
     "U+AB64", "U+AB65", "U+AB66", "U+AB67", "U+AB68", "U+FB00", "U+FB01",
     "U+FB02", "U+FB03", "U+FB04", "U+FB05", "U+FB06", "U+FB13", "U+FB14",
     "U+FB15", "U+FB16", "U+FB17", "U+1D400", "U+1D401", "U+1D402",
     "U+1D403", "U+1D404", "U+1D405", "U+1D406", "U+1D407", "U+1D408",
     "U+1D409", "U+1D40A", "U+1D40B", "U+1D40C", "U+1D40D", "U+1D40E",
     "U+1D40F", "U+1D410", "U+1D411", "U+1D412", "U+1D413", "U+1D414",
     "U+1D415", "U+1D416", "U+1D417", "U+1D418", "U+1D419", "U+1D41A",
     "U+1D41B", "U+1D41C", "U+1D41D", "U+1D41E", "U+1D41F", "U+1D420",
     "U+1D421", "U+1D422", "U+1D423", "U+1D424", "U+1D425", "U+1D426",
     "U+1D427", "U+1D428", "U+1D429", "U+1D42A", "U+1D42B", "U+1D42C",
     "U+1D42D", "U+1D42E", "U+1D42F", "U+1D430", "U+1D431", "U+1D432",
     "U+1D433", "U+1D434", "U+1D435", "U+1D436", "U+1D437", "U+1D438",
     "U+1D439", "U+1D43A", "U+1D43B", "U+1D43C", "U+1D43D", "U+1D43E",
     "U+1D43F", "U+1D440", "U+1D441", "U+1D442", "U+1D443", "U+1D444",
     "U+1D445", "U+1D446", "U+1D447", "U+1D448", "U+1D449", "U+1D44A",
     "U+1D44B", "U+1D44C", "U+1D44D", "U+1D44E", "U+1D44F", "U+1D450",
     "U+1D451", "U+1D452", "U+1D453", "U+1D454", "U+1D456", "U+1D457",
     "U+1D458", "U+1D459", "U+1D45A", "U+1D45B", "U+1D45C", "U+1D45D",
     "U+1D45E", "U+1D45F", "U+1D460", "U+1D461", "U+1D462", "U+1D463",
     "U+1D464", "U+1D465", "U+1D466", "U+1D467", "U+1D468", "U+1D469",
     "U+1D46A", "U+1D46B", "U+1D46C", "U+1D46D", "U+1D46E", "U+1D46F",
     "U+1D470", "U+1D471", "U+1D472", "U+1D473", "U+1D474", "U+1D475",
     "U+1D476", "U+1D477", "U+1D478", "U+1D479", "U+1D47A", "U+1D47B",
     "U+1D47C", "U+1D47D", "U+1D47E", "U+1D47F", "U+1D480", "U+1D481",
     "U+1D482", "U+1D483", "U+1D484", "U+1D485", "U+1D486", "U+1D487",
     "U+1D488", "U+1D489", "U+1D48A", "U+1D48B", "U+1D48C", "U+1D48D",
     "U+1D48E", "U+1D48F", "U+1D490", "U+1D491", "U+1D492", "U+1D493",
     "U+1D494", "U+1D495", "U+1D496", "U+1D497", "U+1D498", "U+1D499",
     "U+1D49A", "U+1D49B", "U+1D49C", "U+1D49E", "U+1D49F", "U+1D4A2",
     "U+1D4A5", "U+1D4A6", "U+1D4A9", "U+1D4AA", "U+1D4AB", "U+1D4AC",
     "U+1D4AE", "U+1D4AF", "U+1D4B0", "U+1D4B1", "U+1D4B2", "U+1D4B3",
     "U+1D4B4", "U+1D4B5", "U+1D4B6", "U+1D4B7", "U+1D4B8", "U+1D4B9",
     "U+1D4BB", "U+1D4BD", "U+1D4BE", "U+1D4BF", "U+1D4C0", "U+1D4C1",
     "U+1D4C2", "U+1D4C3", "U+1D4C5", "U+1D4C6", "U+1D4C7", "U+1D4C8",
     "U+1D4C9", "U+1D4CA", "U+1D4CB", "U+1D4CC", "U+1D4CD", "U+1D4CE",
     "U+1D4CF", "U+1D4D0", "U+1D4D1", "U+1D4D2", "U+1D4D3", "U+1D4D4",
     "U+1D4D5", "U+1D4D6", "U+1D4D7", "U+1D4D8", "U+1D4D9", "U+1D4DA",
     "U+1D4DB", "U+1D4DC", "U+1D4DD", "U+1D4DE", "U+1D4DF", "U+1D4E0",
     "U+1D4E1", "U+1D4E2", "U+1D4E3", "U+1D4E4", "U+1D4E5", "U+1D4E6",
     "U+1D4E7", "U+1D4E8", "U+1D4E9", "U+1D4EA", "U+1D4EB", "U+1D4EC",
     "U+1D4ED", "U+1D4EE", "U+1D4EF", "U+1D4F0", "U+1D4F1", "U+1D4F2",
     "U+1D4F3", "U+1D4F4", "U+1D4F5", "U+1D4F6", "U+1D4F7", "U+1D4F8",
     "U+1D4F9", "U+1D4FA", "U+1D4FB", "U+1D4FC", "U+1D4FD", "U+1D4FE",
     "U+1D4FF", "U+1D500", "U+1D501", "U+1D502", "U+1D503", "U+1D504",
     "U+1D505", "U+1D507", "U+1D508", "U+1D509", "U+1D50A", "U+1D50D",
     "U+1D50E", "U+1D50F", "U+1D510", "U+1D511", "U+1D512", "U+1D513",
     "U+1D514", "U+1D516", "U+1D517", "U+1D518", "U+1D519", "U+1D51A",
     "U+1D51B", "U+1D51C", "U+1D51E", "U+1D51F", "U+1D520", "U+1D521",
     "U+1D522", "U+1D523", "U+1D524", "U+1D525", "U+1D526", "U+1D527",
     "U+1D528", "U+1D529", "U+1D52A", "U+1D52B", "U+1D52C", "U+1D52D",
     "U+1D52E", "U+1D52F", "U+1D530", "U+1D531", "U+1D532", "U+1D533",
     "U+1D534", "U+1D535", "U+1D536", "U+1D537", "U+1D538", "U+1D539",
     "U+1D53B", "U+1D53C", "U+1D53D", "U+1D53E", "U+1D540", "U+1D541",
     "U+1D542", "U+1D543", "U+1D544", "U+1D546", "U+1D54A", "U+1D54B",
     "U+1D54C", "U+1D54D", "U+1D54E", "U+1D54F", "U+1D550", "U+1D552",
     "U+1D553", "U+1D554", "U+1D555", "U+1D556", "U+1D557", "U+1D558",
     "U+1D559", "U+1D55A", "U+1D55B", "U+1D55C", "U+1D55D", "U+1D55E",
     "U+1D55F", "U+1D560", "U+1D561", "U+1D562", "U+1D563", "U+1D564",
     "U+1D565", "U+1D566", "U+1D567", "U+1D568", "U+1D569", "U+1D56A",
     "U+1D56B", "U+1D56C", "U+1D56D", "U+1D56E", "U+1D56F", "U+1D570",
     "U+1D571", "U+1D572", "U+1D573", "U+1D574", "U+1D575", "U+1D576",
     "U+1D577", "U+1D578", "U+1D579", "U+1D57A", "U+1D57B", "U+1D57C",
     "U+1D57D", "U+1D57E", "U+1D57F", "U+1D580", "U+1D581", "U+1D582",
     "U+1D583", "U+1D584", "U+1D585", "U+1D586", "U+1D587", "U+1D588",
     "U+1D589", "U+1D58A", "U+1D58B", "U+1D58C", "U+1D58D", "U+1D58E",
     "U+1D58F", "U+1D590", "U+1D591", "U+1D592", "U+1D593", "U+1D594",
     "U+1D595", "U+1D596", "U+1D597", "U+1D598", "U+1D599", "U+1D59A",
     "U+1D59B", "U+1D59C", "U+1D59D", "U+1D59E", "U+1D59F", "U+1D5A0",
     "U+1D5A1", "U+1D5A2", "U+1D5A3", "U+1D5A4", "U+1D5A5", "U+1D5A6",
     "U+1D5A7", "U+1D5A8", "U+1D5A9", "U+1D5AA", "U+1D5AB", "U+1D5AC",
     "U+1D5AD", "U+1D5AE", "U+1D5AF", "U+1D5B0", "U+1D5B1", "U+1D5B2",
     "U+1D5B3", "U+1D5B4", "U+1D5B5", "U+1D5B6", "U+1D5B7", "U+1D5B8",
     "U+1D5B9", "U+1D5BA", "U+1D5BB", "U+1D5BC", "U+1D5BD", "U+1D5BE",
     "U+1D5BF", "U+1D5C0", "U+1D5C1", "U+1D5C2", "U+1D5C3", "U+1D5C4",
     "U+1D5C5", "U+1D5C6", "U+1D5C7", "U+1D5C8", "U+1D5C9", "U+1D5CA",
     "U+1D5CB", "U+1D5CC", "U+1D5CD", "U+1D5CE", "U+1D5CF", "U+1D5D0",
     "U+1D5D1", "U+1D5D2", "U+1D5D3", "U+1D5D4", "U+1D5D5", "U+1D5D6",
     "U+1D5D7", "U+1D5D8", "U+1D5D9", "U+1D5DA", "U+1D5DB", "U+1D5DC",
     "U+1D5DD", "U+1D5DE", "U+1D5DF", "U+1D5E0", "U+1D5E1", "U+1D5E2",
     "U+1D5E3", "U+1D5E4", "U+1D5E5", "U+1D5E6", "U+1D5E7", "U+1D5E8",
     "U+1D5E9", "U+1D5EA", "U+1D5EB", "U+1D5EC", "U+1D5ED", "U+1D5EE",
     "U+1D5EF", "U+1D5F0", "U+1D5F1", "U+1D5F2", "U+1D5F3", "U+1D5F4",
     "U+1D5F5", "U+1D5F6", "U+1D5F7", "U+1D5F8", "U+1D5F9", "U+1D5FA",
     "U+1D5FB", "U+1D5FC", "U+1D5FD", "U+1D5FE", "U+1D5FF", "U+1D600",
     "U+1D601", "U+1D602", "U+1D603", "U+1D604", "U+1D605", "U+1D606",
     "U+1D607", "U+1D608", "U+1D609", "U+1D60A", "U+1D60B", "U+1D60C",
     "U+1D60D", "U+1D60E", "U+1D60F", "U+1D610", "U+1D611", "U+1D612",
     "U+1D613", "U+1D614", "U+1D615", "U+1D616", "U+1D617", "U+1D618",
     "U+1D619", "U+1D61A", "U+1D61B", "U+1D61C", "U+1D61D", "U+1D61E",
     "U+1D61F", "U+1D620", "U+1D621", "U+1D622", "U+1D623", "U+1D624",
     "U+1D625", "U+1D626", "U+1D627", "U+1D628", "U+1D629", "U+1D62A",
     "U+1D62B", "U+1D62C", "U+1D62D", "U+1D62E", "U+1D62F", "U+1D630",
     "U+1D631", "U+1D632", "U+1D633", "U+1D634", "U+1D635", "U+1D636",
     "U+1D637", "U+1D638", "U+1D639", "U+1D63A", "U+1D63B", "U+1D63C",
     "U+1D63D", "U+1D63E", "U+1D63F", "U+1D640", "U+1D641", "U+1D642",
     "U+1D643", "U+1D644", "U+1D645", "U+1D646", "U+1D647", "U+1D648",
     "U+1D649", "U+1D64A", "U+1D64B", "U+1D64C", "U+1D64D", "U+1D64E",
     "U+1D64F", "U+1D650", "U+1D651", "U+1D652", "U+1D653", "U+1D654",
     "U+1D655", "U+1D656", "U+1D657", "U+1D658", "U+1D659", "U+1D65A",
     "U+1D65B", "U+1D65C", "U+1D65D", "U+1D65E", "U+1D65F", "U+1D660",
     "U+1D661", "U+1D662", "U+1D663", "U+1D664", "U+1D665", "U+1D666",
     "U+1D667", "U+1D668", "U+1D669", "U+1D66A", "U+1D66B", "U+1D66C",
     "U+1D66D", "U+1D66E", "U+1D66F", "U+1D670", "U+1D671", "U+1D672",
     "U+1D673", "U+1D674", "U+1D675", "U+1D676", "U+1D677", "U+1D678",
     "U+1D679", "U+1D67A", "U+1D67B", "U+1D67C", "U+1D67D", "U+1D67E",
     "U+1D67F", "U+1D680", "U+1D681", "U+1D682", "U+1D683", "U+1D684",
     "U+1D685", "U+1D686", "U+1D687", "U+1D688", "U+1D689", "U+1D68A",
     "U+1D68B", "U+1D68C", "U+1D68D", "U+1D68E", "U+1D68F", "U+1D690",
     "U+1D691", "U+1D692", "U+1D693", "U+1D694", "U+1D695", "U+1D696",
     "U+1D697", "U+1D698", "U+1D699", "U+1D69A", "U+1D69B", "U+1D69C",
     "U+1D69D", "U+1D69E", "U+1D69F", "U+1D6A0", "U+1D6A1", "U+1D6A2",
     "U+1D6A3", "U+1D6A4", "U+1D6A5", "U+1D6A8", "U+1D6A9", "U+1D6AA",
     "U+1D6AB", "U+1D6AC", "U+1D6AD", "U+1D6AE", "U+1D6AF", "U+1D6B0",
     "U+1D6B1", "U+1D6B2", "U+1D6B3", "U+1D6B4", "U+1D6B5", "U+1D6B6",
     "U+1D6B7", "U+1D6B8", "U+1D6B9", "U+1D6BA", "U+1D6BB", "U+1D6BC",
     "U+1D6BD", "U+1D6BE", "U+1D6BF", "U+1D6C0", "U+1D6C2", "U+1D6C3",
     "U+1D6C4", "U+1D6C5", "U+1D6C6", "U+1D6C7", "U+1D6C8", "U+1D6C9",
     "U+1D6CA", "U+1D6CB", "U+1D6CC", "U+1D6CD", "U+1D6CE", "U+1D6CF",
     "U+1D6D0", "U+1D6D1", "U+1D6D2", "U+1D6D3", "U+1D6D4", "U+1D6D5",
     "U+1D6D6", "U+1D6D7", "U+1D6D8", "U+1D6D9", "U+1D6DA", "U+1D6DC",
     "U+1D6DD", "U+1D6DE", "U+1D6DF", "U+1D6E0", "U+1D6E1", "U+1D6E2",
     "U+1D6E3", "U+1D6E4", "U+1D6E5", "U+1D6E6", "U+1D6E7", "U+1D6E8",
     "U+1D6E9", "U+1D6EA", "U+1D6EB", "U+1D6EC", "U+1D6ED", "U+1D6EE",
     "U+1D6EF", "U+1D6F0", "U+1D6F1", "U+1D6F2", "U+1D6F3", "U+1D6F4",
     "U+1D6F5", "U+1D6F6", "U+1D6F7", "U+1D6F8", "U+1D6F9", "U+1D6FA",
     "U+1D6FC", "U+1D6FD", "U+1D6FE", "U+1D6FF", "U+1D700", "U+1D701",
     "U+1D702", "U+1D703", "U+1D704", "U+1D705", "U+1D706", "U+1D707",
     "U+1D708", "U+1D709", "U+1D70A", "U+1D70B", "U+1D70C", "U+1D70D",
     "U+1D70E", "U+1D70F", "U+1D710", "U+1D711", "U+1D712", "U+1D713",
     "U+1D714", "U+1D716", "U+1D717", "U+1D718", "U+1D719", "U+1D71A",
     "U+1D71B", "U+1D71C", "U+1D71D", "U+1D71E", "U+1D71F", "U+1D720",
     "U+1D721", "U+1D722", "U+1D723", "U+1D724", "U+1D725", "U+1D726",
     "U+1D727", "U+1D728", "U+1D729", "U+1D72A", "U+1D72B", "U+1D72C",
     "U+1D72D", "U+1D72E", "U+1D72F", "U+1D730", "U+1D731", "U+1D732",
     "U+1D733", "U+1D734", "U+1D736", "U+1D737", "U+1D738", "U+1D739",
     "U+1D73A", "U+1D73B", "U+1D73C", "U+1D73D", "U+1D73E", "U+1D73F",
     "U+1D740", "U+1D741", "U+1D742", "U+1D743", "U+1D744", "U+1D745",
     "U+1D746", "U+1D747", "U+1D748", "U+1D749", "U+1D74A", "U+1D74B",
     "U+1D74C", "U+1D74D", "U+1D74E", "U+1D750", "U+1D751", "U+1D752",
     "U+1D753", "U+1D754", "U+1D755", "U+1D756", "U+1D757", "U+1D758",
     "U+1D759", "U+1D75A", "U+1D75B", "U+1D75C", "U+1D75D", "U+1D75E",
     "U+1D75F", "U+1D760", "U+1D761", "U+1D762", "U+1D763", "U+1D764",
     "U+1D765", "U+1D766", "U+1D767", "U+1D768", "U+1D769", "U+1D76A",
     "U+1D76B", "U+1D76C", "U+1D76D", "U+1D76E", "U+1D770", "U+1D771",
     "U+1D772", "U+1D773", "U+1D774", "U+1D775", "U+1D776", "U+1D777",
     "U+1D778", "U+1D779", "U+1D77A", "U+1D77B", "U+1D77C", "U+1D77D",
     "U+1D77E", "U+1D77F", "U+1D780", "U+1D781", "U+1D782", "U+1D783",
     "U+1D784", "U+1D785", "U+1D786", "U+1D787", "U+1D788", "U+1D78A",
     "U+1D78B", "U+1D78C", "U+1D78D", "U+1D78E", "U+1D78F", "U+1D790",
     "U+1D791", "U+1D792", "U+1D793", "U+1D794", "U+1D795", "U+1D796",
     "U+1D797", "U+1D798", "U+1D799", "U+1D79A", "U+1D79B", "U+1D79C",
     "U+1D79D", "U+1D79E", "U+1D79F", "U+1D7A0", "U+1D7A1", "U+1D7A2",
     "U+1D7A3", "U+1D7A4", "U+1D7A5", "U+1D7A6", "U+1D7A7", "U+1D7A8",
     "U+1D7AA", "U+1D7AB", "U+1D7AC", "U+1D7AD", "U+1D7AE", "U+1D7AF",
     "U+1D7B0", "U+1D7B1", "U+1D7B2", "U+1D7B3", "U+1D7B4", "U+1D7B5",
     "U+1D7B6", "U+1D7B7", "U+1D7B8", "U+1D7B9", "U+1D7BA", "U+1D7BB",
     "U+1D7BC", "U+1D7BD", "U+1D7BE", "U+1D7BF", "U+1D7C0", "U+1D7C1",
     "U+1D7C2", "U+1D7C4", "U+1D7C5", "U+1D7C6", "U+1D7C7", "U+1D7C8",
     "U+1D7C9", "U+1D7CA", "U+1D7CB", "U+1DF00", "U+1DF01", "U+1DF02",
     "U+1DF03", "U+1DF04", "U+1DF05", "U+1DF06", "U+1DF07", "U+1DF08",
     "U+1DF09", "U+1DF0B", "U+1DF0C", "U+1DF0D", "U+1DF0E", "U+1DF0F",
     "U+1DF10", "U+1DF11", "U+1DF12", "U+1DF13", "U+1DF14", "U+1DF15",
     "U+1DF16", "U+1DF17", "U+1DF18", "U+1DF19", "U+1DF1A", "U+1DF1B",
     "U+1DF1C", "U+1DF1D", "U+1DF1E", "U+1DF25", "U+1DF26", "U+1DF27",
     "U+1DF28", "U+1DF29", "U+1DF2A", "U+1F130", "U+1F131", "U+1F132",
     "U+1F133", "U+1F134", "U+1F135", "U+1F136", "U+1F137", "U+1F138",
     "U+1F139", "U+1F13A", "U+1F13B", "U+1F13C", "U+1F13D", "U+1F13E",
     "U+1F13F", "U+1F140", "U+1F141", "U+1F142", "U+1F143", "U+1F144",
     "U+1F145", "U+1F146", "U+1F147", "U+1F148", "U+1F149", "U+1F150",
     "U+1F151", "U+1F152", "U+1F153", "U+1F154", "U+1F155", "U+1F156",
     "U+1F157", "U+1F158", "U+1F159", "U+1F15A", "U+1F15B", "U+1F15C",
     "U+1F15D", "U+1F15E", "U+1F15F", "U+1F160", "U+1F161", "U+1F162",
     "U+1F163", "U+1F164", "U+1F165", "U+1F166", "U+1F167", "U+1F168",
     "U+1F169", "U+1F170", "U+1F171", "U+1F172", "U+1F173", "U+1F174",
     "U+1F175", "U+1F176", "U+1F177", "U+1F178", "U+1F179", "U+1F17A",
     "U+1F17B", "U+1F17C", "U+1F17D", "U+1F17E", "U+1F17F", "U+1F180",
     "U+1F181", "U+1F182", "U+1F183", "U+1F184", "U+1F185", "U+1F186",
     "U+1F187", "U+1F188", "U+1F189"}

\* The characters with the Unicode property Cased that the context of a
\* capital sigma is tested for, and those with the property Case_Ignorable.
Cased ==
    {UpperCase[i] : i \in 1..Len(UpperCase)}
    \cup {LowerCase[i] : i \in 1..Len(LowerCase)}
    \cup OtherCased
    \cup {FinalSigma, CapitalIWithDot}
CaseIgnorable ==
    {"'", ".", ":", "^", "U+0060", "¨", "­", "¯", "´", "·", "¸", "ʰ", "ʱ",
     "ʲ", "ʳ", "ʴ", "ʵ", "ʶ", "ʷ", "ʸ", "ʹ", "ʺ", "ʻ", "ʼ", "ʽ", "ʾ", "ʿ",
     "ˀ", "ˁ", "˂", "˃", "˄", "˅", "ˆ", "ˇ", "ˈ", "ˉ", "ˊ", "ˋ", "ˌ", "ˍ",
     "ˎ", "ˏ", "ː", "ˑ", "˒", "˓", "˔", "˕", "˖", "˗", "˘", "˙", "˚", "˛",
     "˜", "˝", "˞", "˟", "ˠ", "ˡ", "ˢ", "ˣ", "ˤ", "˥", "˦", "˧", "˨", "˩",
     "˪", "˫", "ˬ", "˭", "ˮ", "˯", "˰", "˱", "˲", "˳", "˴", "˵", "˶", "˷",
     "˸", "˹", "˺", "˻", "˼", "˽", "˾", "˿", "U+0300", "U+0301", "U+0302",
     "U+0303", "U+0304", "U+0305", "U+0306", "U+0307", "U+0308", "U+0309",
     "U+030A", "U+030B", "U+030C", "U+030D", "U+030E", "U+030F", "U+0310",
     "U+0311", "U+0312", "U+0313", "U+0314", "U+0315", "U+0316", "U+0317",
     "U+0318", "U+0319", "U+031A", "U+031B", "U+031C", "U+031D", "U+031E",
     "U+031F", "U+0320", "U+0321", "U+0322", "U+0323", "U+0324", "U+0325",
     "U+0326", "U+0327", "U+0328", "U+0329", "U+032A", "U+032B", "U+032C",
     "U+032D", "U+032E", "U+032F", "U+0330", "U+0331", "U+0332", "U+0333",
     "U+0334", "U+0335", "U+0336", "U+0337", "U+0338", "U+0339", "U+033A",
     "U+033B", "U+033C", "U+033D", "U+033E", "U+033F", "U+0340", "U+0341",
     "U+0342", "U+0343", "U+0344", "U+0345", "U+0346", "U+0347", "U+0348",
     "U+0349", "U+034A", "U+034B", "U+034C", "U+034D", "U+034E", "U+034F",
     "U+0350", "U+0351", "U+0352", "U+0353", "U+0354", "U+0355", "U+0356",
     "U+0357", "U+0358", "U+0359", "U+035A", "U+035B", "U+035C", "U+035D",
     "U+035E", "U+035F", "U+0360", "U+0361", "U+0362", "U+0363", "U+0364",
     "U+0365", "U+0366", "U+0367", "U+0368", "U+0369", "U+036A", "U+036B",
     "U+036C", "U+036D", "U+036E", "U+036F", "U+0374", "U+0375", "U+037A",
     "΄", "΅", "·", "҃", "҄", "҅", "҆", "҇", "҈", "҉", "U+0559", "U+055F",
     "֑", "֒", "֓", "֔", "֕", "֖", "֗", "֘", "֙", "֚", "֛", "֜", "֝", "֞",
     "֟", "֠", "֡", "֢", "֣", "֤", "֥", "֦", "֧", "֨", "֩", "֪", "֫", "֬",
     "֭", "֮", "֯", "ְ", "ֱ", "ֲ", "ֳ", "ִ", "ֵ", "ֶ", "ַ", "ָ", "ֹ", "ֺ",
     "ֻ", "ּ", "ֽ", "ֿ", "ׁ", "ׂ", "ׄ", "ׅ", "ׇ", "״", "U+0600", "U+0601",
     "U+0602", "U+0603", "U+0604", "U+0605", "U+0610", "U+0611", "U+0612",
     "U+0613", "U+0614", "U+0615", "U+0616", "U+0617", "U+0618", "U+0619",
     "U+061A", "U+061C", "U+0640", "U+064B", "U+064C", "U+064D", "U+064E",
     "U+064F", "U+0650", "U+0651", "U+0652", "U+0653", "U+0654", "U+0655",
     "U+0656", "U+0657", "U+0658", "U+0659", "U+065A", "U+065B", "U+065C",
     "U+065D", "U+065E", "U+065F", "U+0670", "ۖ", "ۗ", "ۘ", "ۙ", "ۚ", "ۛ",
     "ۜ", "۝", "۟", "۠", "ۡ", "ۢ", "ۣ", "ۤ", "ۥ", "ۦ", "ۧ", "ۨ", "۪", "۫",
     "۬", "ۭ", "U+070F", "U+0711", "U+0730", "U+0731", "U+0732", "U+0733",
     "U+0734", "U+0735", "U+0736", "U+0737", "U+0738", "U+0739", "U+073A",
     "U+073B", "U+073C", "U+073D", "U+073E", "U+073F", "U+0740", "U+0741",
     "U+0742", "U+0743", "U+0744", "U+0745", "U+0746", "U+0747", "U+0748",
     "U+0749", "U+074A", "ަ", "ާ", "ި", "ީ", "ު", "ޫ", "ެ", "ޭ", "ޮ", "ޯ",
     "ް", "߫", "߬", "߭", "߮", "߯", "߰", "߱", "߲", "߳", "ߴ", "ߵ", "ߺ", "߽",
     "U+0816", "U+0817", "U+0818", "U+0819", "U+081A", "U+081B", "U+081C",
     "U+081D", "U+081E", "U+081F", "U+0820", "U+0821", "U+0822", "U+0823",
     "U+0824", "U+0825", "U+0826", "U+0827", "U+0828", "U+0829", "U+082A",
     "U+082B", "U+082C", "U+082D", "U+0859", "U+085A", "U+085B", "࢈", "࢐",
     "࢑", "ࢗ", "࢘", "࢙", "࢚", "࢛", "࢜", "࢝", "࢞", "࢟", "ࣉ", "࣊", "࣋", "࣌",
     "࣍", "࣎", "࣏", "࣐", "࣑", "࣒", "࣓", "ࣔ", "ࣕ", "ࣖ", "ࣗ", "ࣘ", "ࣙ", "ࣚ",
     "ࣛ", "ࣜ", "ࣝ", "ࣞ", "ࣟ", "࣠", "࣡", "࣢", "ࣣ", "ࣤ", "ࣥ", "ࣦ", "ࣧ", "ࣨ",
     "ࣩ", "࣪", "࣫", "࣬", "࣭", "࣮", "࣯", "ࣰ", "ࣱ", "ࣲ", "ࣳ", "ࣴ", "ࣵ", "ࣶ",
     "ࣷ", "ࣸ", "ࣹ", "ࣺ", "ࣻ", "ࣼ", "ࣽ", "ࣾ", "ࣿ", "U+0900", "U+0901",
     "U+0902", "U+093A", "U+093C", "U+0941", "U+0942", "U+0943", "U+0944",
     "U+0945", "U+0946", "U+0947", "U+0948", "U+094D", "U+0951", "U+0952",
     "U+0953", "U+0954", "U+0955", "U+0956", "U+0957", "U+0962", "U+0963",
     "U+0971", "ঁ", "়", "ু", "ূ", "ৃ", "ৄ", "্", "ৢ", "ৣ", "৾", "U+0A01",
     "U+0A02", "U+0A3C", "U+0A41", "U+0A42", "U+0A47", "U+0A48", "U+0A4B",
     "U+0A4C", "U+0A4D", "U+0A51", "U+0A70", "U+0A71", "U+0A75", "ઁ", "ં",
     "઼", "ુ", "ૂ", "ૃ", "ૄ", "ૅ", "ે", "ૈ", "્", "ૢ", "ૣ", "ૺ", "ૻ", "ૼ",
     "૽", "૾", "૿", "U+0B01", "U+0B3C", "U+0B3F", "U+0B41", "U+0B42",
     "U+0B43", "U+0B44", "U+0B4D", "U+0B55", "U+0B56", "U+0B62", "U+0B63",
     "ஂ", "ீ", "்", "U+0C00", "U+0C04", "U+0C3C", "U+0C3E", "U+0C3F",
     "U+0C40", "U+0C46", "U+0C47", "U+0C48", "U+0C4A", "U+0C4B", "U+0C4C",
     "U+0C4D", "U+0C55", "U+0C56", "U+0C62", "U+0C63", "ಁ", "಼", "ಿ", "ೆ",
     "ೌ", "್", "ೢ", "ೣ", "U+0D00", "U+0D01", "U+0D3B", "U+0D3C", "U+0D41",
     "U+0D42", "U+0D43", "U+0D44", "U+0D4D", "U+0D62", "U+0D63", "ඁ", "්",
     "ි", "ී", "ු", "ූ", "U+0E31", "U+0E34", "U+0E35", "U+0E36", "U+0E37",
     "U+0E38", "U+0E39", "U+0E3A", "U+0E46", "U+0E47", "U+0E48", "U+0E49",
     "U+0E4A", "U+0E4B", "U+0E4C", "U+0E4D", "U+0E4E", "ັ", "ິ", "ີ", "ຶ",
     "ື", "ຸ", "ູ", "຺", "ົ", "ຼ", "ໆ", "່", "້", "໊", "໋", "໌", "ໍ", "໎",
     "U+0F18", "U+0F19", "U+0F35", "U+0F37", "U+0F39", "U+0F71", "U+0F72",
     "U+0F73", "U+0F74", "U+0F75", "U+0F76", "U+0F77", "U+0F78", "U+0F79",
     "U+0F7A", "U+0F7B", "U+0F7C", "U+0F7D", "U+0F7E", "ྀ", "ཱྀ", "ྂ", "ྃ",
     "྄", "྆", "྇", "ྍ", "ྎ", "ྏ", "ྐ", "ྑ", "ྒ", "ྒྷ", "ྔ", "ྕ", "ྖ", "ྗ",
     "ྙ", "ྚ", "ྛ", "ྜ", "ྜྷ", "ྞ", "ྟ", "ྠ", "ྡ", "ྡྷ", "ྣ", "ྤ", "ྥ", "ྦ",
     "ྦྷ", "ྨ", "ྩ", "ྪ", "ྫ", "ྫྷ", "ྭ", "ྮ", "ྯ", "ྰ", "ྱ", "ྲ", "ླ", "ྴ",
     "ྵ", "ྶ", "ྷ", "ྸ", "ྐྵ", "ྺ", "ྻ", "ྼ", "࿆", "U+102D", "U+102E",
     "U+102F", "U+1030", "U+1032", "U+1033", "U+1034", "U+1035", "U+1036",
     "U+1037", "U+1039", "U+103A", "U+103D", "U+103E", "U+1058", "U+1059",
     "U+105E", "U+105F", "U+1060", "U+1071", "U+1072", "U+1073", "U+1074",
     "ႂ", "ႅ", "ႆ", "ႍ", "ႝ", "ჼ", "U+135D", "U+135E", "U+135F", "U+1712",
     "U+1713", "U+1714", "U+1732", "U+1733", "U+1752", "U+1753", "U+1772",
     "U+1773", "឴", "឵", "ិ", "ី", "ឹ", "ឺ", "ុ", "ូ", "ួ", "ំ", "៉", "៊",
     "់", "៌", "៍", "៎", "៏", "័", "៑", "្", "៓", "ៗ", "៝", "U+180B",
     "U+180C", "U+180D", "U+180E", "U+180F", "U+1843", "ᢅ", "ᢆ", "ᢩ",
     "U+1920", "U+1921", "U+1922", "U+1927", "U+1928", "U+1932", "U+1939",
     "U+193A", "U+193B", "U+1A17", "U+1A18", "U+1A1B", "U+1A56", "U+1A58",
     "U+1A59", "U+1A5A", "U+1A5B", "U+1A5C", "U+1A5D", "U+1A5E", "U+1A60",
     "U+1A62", "U+1A65", "U+1A66", "U+1A67", "U+1A68", "U+1A69", "U+1A6A",
     "U+1A6B", "U+1A6C", "U+1A73", "U+1A74", "U+1A75", "U+1A76", "U+1A77",
     "U+1A78", "U+1A79", "U+1A7A", "U+1A7B", "U+1A7C", "U+1A7F", "ᪧ", "᪰",
     "᪱", "᪲", "᪳", "᪴", "᪵", "᪶", "᪷", "᪸", "᪹", "᪺", "᪻", "᪼", "᪽", "᪾",
     "ᪿ", "ᫀ", "᫁", "᫂", "᫃", "᫄", "᫅", "᫆", "᫇", "᫈", "᫉", "᫊", "᫋", "ᫌ",
     "ᫍ", "ᫎ", "᫏", "᫐", "᫑", "᫒", "᫓", "᫔", "᫕", "᫖", "᫗", "᫘", "᫙", "᫚",
     "᫛", "᫜", "᫝", "᫠", "᫡", "᫢", "᫣", "᫤", "᫥", "᫦", "᫧", "᫨", "᫩", "᫪",
     "᫫", "U+1B00", "U+1B01", "U+1B02", "U+1B03", "U+1B34", "U+1B36",
     "U+1B37", "U+1B38", "U+1B39", "U+1B3A", "U+1B3C", "U+1B42", "U+1B6B",
     "U+1B6C", "U+1B6D", "U+1B6E", "U+1B6F", "U+1B70", "U+1B71", "U+1B72",
     "U+1B73", "ᮀ", "ᮁ", "ᮢ", "ᮣ", "ᮤ", "ᮥ", "ᮨ", "ᮩ", "᮫", "ᮬ", "ᮭ", "᯦",
     "ᯨ", "ᯩ", "ᯭ", "ᯯ", "ᯰ", "ᯱ", "U+1C2C", "U+1C2D", "U+1C2E", "U+1C2F",
     "U+1C30", "U+1C31", "U+1C32", "U+1C33", "U+1C36", "U+1C37", "U+1C78",
     "U+1C79", "U+1C7A", "U+1C7B", "U+1C7C", "U+1C7D", "᳐", "᳑", "᳒", "᳔",
     "᳕", "᳖", "᳗", "᳘", "᳙", "᳚", "᳛", "᳜", "᳝", "᳞", "᳟", "᳠", "᳢", "᳣",
     "᳤", "᳥", "᳦", "᳧", "᳨", "᳭", "᳴", "᳸", "᳹", "U+1D2C", "U+1D2D",
     "U+1D2E", "U+1D2F", "U+1D30", "U+1D31", "U+1D32", "U+1D33", "U+1D34",
     "U+1D35", "U+1D36", "U+1D37", "U+1D38", "U+1D39", "U+1D3A", "U+1D3B",
     "U+1D3C", "U+1D3D", "U+1D3E", "U+1D3F", "U+1D40", "U+1D41", "U+1D42",
     "U+1D43", "U+1D44", "U+1D45", "U+1D46", "U+1D47", "U+1D48", "U+1D49",
     "U+1D4A", "U+1D4B", "U+1D4C", "U+1D4D", "U+1D4E", "U+1D4F", "U+1D50",
     "U+1D51", "U+1D52", "U+1D53", "U+1D54", "U+1D55", "U+1D56", "U+1D57",
     "U+1D58", "U+1D59", "U+1D5A", "U+1D5B", "U+1D5C", "U+1D5D", "U+1D5E",
     "U+1D5F", "U+1D60", "U+1D61", "U+1D62", "U+1D63", "U+1D64", "U+1D65",
     "U+1D66", "U+1D67", "U+1D68", "U+1D69", "U+1D6A", "U+1D78", "ᶛ", "ᶜ",
     "ᶝ", "ᶞ", "ᶟ", "ᶠ", "ᶡ", "ᶢ", "ᶣ", "ᶤ", "ᶥ", "ᶦ", "ᶧ", "ᶨ", "ᶩ", "ᶪ",
     "ᶫ", "ᶬ", "ᶭ", "ᶮ", "ᶯ", "ᶰ", "ᶱ", "ᶲ", "ᶳ", "ᶴ", "ᶵ", "ᶶ", "ᶷ", "ᶸ",
     "ᶹ", "ᶺ", "ᶻ", "ᶼ", "ᶽ", "ᶾ", "ᶿ", "᷀", "᷁", "᷂", "᷃", "᷄", "᷅", "᷆",
     "᷇", "᷈", "᷉", "᷊", "᷋", "᷌", "᷍", "᷎", "᷏", "᷐", "᷑", "᷒", "ᷓ", "ᷔ",
     "ᷕ", "ᷖ", "ᷗ", "ᷘ", "ᷙ", "ᷚ", "ᷛ", "ᷜ", "ᷝ", "ᷞ", "ᷟ", "ᷠ", "ᷡ", "ᷢ",
     "ᷣ", "ᷤ", "ᷥ", "ᷦ", "ᷧ", "ᷨ", "ᷩ", "ᷪ", "ᷫ", "ᷬ", "ᷭ", "ᷮ", "ᷯ", "ᷰ",
     "ᷱ", "ᷲ", "ᷳ", "ᷴ", "᷵", "᷶", "᷷", "᷸", "᷹", "᷺", "᷻", "᷼", "᷽", "᷾",
     "᷿", "᾽", "᾿", "῀", "῁", "῍", "῎", "῏", "῝", "῞", "῟", "῭", "΅", "`",
     "´", "῾", "U+200B", "U+200C", "U+200D", "U+200E", "U+200F", "U+2018",
     "U+2019", "U+2024", "U+2027", "U+202A", "U+202B", "U+202C", "U+202D",
     "U+202E", "U+2060", "U+2061", "U+2062", "U+2063", "U+2064", "U+2066",
     "U+2067", "U+2068", "U+2069", "U+206A", "U+206B", "U+206C", "U+206D",
     "U+206E", "U+206F", "U+2071", "U+207F", "ₐ", "ₑ", "ₒ", "ₓ", "ₔ", "ₕ",
     "ₖ", "ₗ", "ₘ", "ₙ", "ₚ", "ₛ", "ₜ", "⃐", "⃑", "⃒", "⃓", "⃔", "⃕", "⃖",
     "⃗", "⃘", "⃙", "⃚", "⃛", "⃜", "⃝", "⃞", "⃟", "⃠", "⃡", "⃢", "⃣", "⃤",
     "⃥", "⃦", "⃧", "⃨", "⃩", "⃪", "⃫", "⃬", "⃭", "⃮", "⃯", "⃰", "U+2C7C",
     "U+2C7D", "⳯", "⳰", "⳱", "U+2D6F", "U+2D7F", "ⷠ", "ⷡ", "ⷢ", "ⷣ", "ⷤ",
     "ⷥ", "ⷦ", "ⷧ", "ⷨ", "ⷩ", "ⷪ", "ⷫ", "ⷬ", "ⷭ", "ⷮ", "ⷯ", "ⷰ", "ⷱ", "ⷲ",
     "ⷳ", "ⷴ", "ⷵ", "ⷶ", "ⷷ", "ⷸ", "ⷹ", "ⷺ", "ⷻ", "ⷼ", "ⷽ", "ⷾ", "ⷿ",
     "U+2E2F", "U+3005", "U+302A", "U+302B", "U+302C", "U+302D", "U+3031",
     "U+3032", "U+3033", "U+3034", "U+3035", "U+303B", "゙", "゚", "゛", "゜",
     "ゝ", "ゞ", "ー", "ヽ", "ヾ", "U+A015", "ꓸ", "ꓹ", "ꓺ", "ꓻ", "ꓼ", "ꓽ",
     "U+A60C", "U+A66F", "U+A670", "U+A671", "U+A672", "U+A674", "U+A675",
     "U+A676", "U+A677", "U+A678", "U+A679", "U+A67A", "U+A67B", "U+A67C",
     "U+A67D", "U+A67F", "ꚜ", "ꚝ", "ꚞ", "ꚟ", "꛰", "꛱", "U+A700", "U+A701",
     "U+A702", "U+A703", "U+A704", "U+A705", "U+A706", "U+A707", "U+A708",
     "U+A709", "U+A70A", "U+A70B", "U+A70C", "U+A70D", "U+A70E", "U+A70F",
     "U+A710", "U+A711", "U+A712", "U+A713", "U+A714", "U+A715", "U+A716",
     "U+A717", "U+A718", "U+A719", "U+A71A", "U+A71B", "U+A71C", "U+A71D",
     "U+A71E", "U+A71F", "U+A720", "U+A721", "U+A770", "ꞈ", "꞉", "꞊", "꟱",
     "ꟲ", "ꟳ", "ꟴ", "ꟸ", "ꟹ", "U+A802", "U+A806", "U+A80B", "U+A825",
     "U+A826", "U+A82C", "꣄", "ꣅ", "꣠", "꣡", "꣢", "꣣", "꣤", "꣥", "꣦", "꣧",
     "꣨", "꣩", "꣪", "꣫", "꣬", "꣭", "꣮", "꣯", "꣰", "꣱", "ꣿ", "U+A926",
     "U+A927", "U+A928", "U+A929", "U+A92A", "U+A92B", "U+A92C", "U+A92D",
     "U+A947", "U+A948", "U+A949", "U+A94A", "U+A94B", "U+A94C", "U+A94D",
     "U+A94E", "U+A94F", "U+A950", "U+A951", "ꦀ", "ꦁ", "ꦂ", "꦳", "ꦶ", "ꦷ",
     "ꦸ", "ꦹ", "ꦼ", "ꦽ", "ꧏ", "ꧥ", "ꧦ", "U+AA29", "U+AA2A", "U+AA2B",
     "U+AA2C", "U+AA2D", "U+AA2E", "U+AA31", "U+AA32", "U+AA35", "U+AA36",
     "U+AA43", "U+AA4C", "U+AA70", "U+AA7C", "ꪰ", "ꪲ", "ꪳ", "ꪴ", "ꪷ", "ꪸ",
     "ꪾ", "꪿", "꫁", "ꫝ", "ꫬ", "ꫭ", "ꫳ", "ꫴ", "꫶", "U+AB5B", "U+AB5C",
     "U+AB5D", "U+AB5E", "U+AB5F", "U+AB69", "U+AB6A", "U+AB6B", "ꯥ", "ꯨ",
     "꯭", "U+FB1E", "﮲", "﮳", "﮴", "﮵", "﮶", "﮷", "﮸", "﮹", "﮺", "﮻", "﮼",
     "﮽", "﮾", "﮿", "﯀", "﯁", "﯂", "U+FE00", "U+FE01", "U+FE02", "U+FE03",
     "U+FE04", "U+FE05", "U+FE06", "U+FE07", "U+FE08", "U+FE09", "U+FE0A",
     "U+FE0B", "U+FE0C", "U+FE0D", "U+FE0E", "U+FE0F", "U+FE13", "U+FE20",
     "U+FE21", "U+FE22", "U+FE23", "U+FE24", "U+FE25", "U+FE26", "U+FE27",
     "U+FE28", "U+FE29", "U+FE2A", "U+FE2B", "U+FE2C", "U+FE2D", "U+FE2E",
     "U+FE2F", "U+FE52", "U+FE55", "﻿", "U+FF07", "U+FF0E", "U+FF1A",
     "U+FF3E", "U+FF40", "U+FF70", "ﾞ", "ﾟ", "￣", "￹", "￺", "￻", "U+101FD",
     "U+102E0", "U+10376", "U+10377", "U+10378", "U+10379", "U+1037A",
     "U+10780", "U+10781", "U+10782", "U+10783", "U+10784", "U+10785",
     "U+10787", "U+10788", "U+10789", "U+1078A", "U+1078B", "U+1078C",
     "U+1078D", "U+1078E", "U+1078F", "U+10790", "U+10791", "U+10792",
     "U+10793", "U+10794", "U+10795", "U+10796", "U+10797", "U+10798",
     "U+10799", "U+1079A", "U+1079B", "U+1079C", "U+1079D", "U+1079E",
     "U+1079F", "U+107A0", "U+107A1", "U+107A2", "U+107A3", "U+107A4",
     "U+107A5", "U+107A6", "U+107A7", "U+107A8", "U+107A9", "U+107AA",
     "U+107AB", "U+107AC", "U+107AD", "U+107AE", "U+107AF", "U+107B0",
     "U+107B2", "U+107B3", "U+107B4", "U+107B5", "U+107B6", "U+107B7",
     "U+107B8", "U+107B9", "U+107BA", "U+10A01", "U+10A02", "U+10A03",
     "U+10A05", "U+10A06", "U+10A0C", "U+10A0D", "U+10A0E", "U+10A0F",
     "U+10A38", "U+10A39", "U+10A3A", "U+10A3F", "U+10AE5", "U+10AE6",
     "U+10D24", "U+10D25", "U+10D26", "U+10D27", "U+10D4E", "U+10D69",
     "U+10D6A", "U+10D6B", "U+10D6C", "U+10D6D", "U+10D6F", "U+10EAB",
     "U+10EAC", "U+10EC5", "U+10EFA", "U+10EFB", "U+10EFC", "U+10EFD",
     "U+10EFE", "U+10EFF", "U+10F46", "U+10F47", "U+10F48", "U+10F49",
     "U+10F4A", "U+10F4B", "U+10F4C", "U+10F4D", "U+10F4E", "U+10F4F",
     "U+10F50", "U+10F82", "U+10F83", "U+10F84", "U+10F85", "U+11001",
     "U+11038", "U+11039", "U+1103A", "U+1103B", "U+1103C", "U+1103D",
     "U+1103E", "U+1103F", "U+11040", "U+11041", "U+11042", "U+11043",
     "U+11044", "U+11045", "U+11046", "U+11070", "U+11073", "U+11074",
     "U+1107F", "U+11080", "U+11081", "U+110B3", "U+110B4", "U+110B5",
     "U+110B6", "U+110B9", "U+110BA", "U+110BD", "U+110C2", "U+110CD",
     "U+11100", "U+11101", "U+11102", "U+11127", "U+11128", "U+11129",
     "U+1112A", "U+1112B", "U+1112D", "U+1112E", "U+1112F", "U+11130",
     "U+11131", "U+11132", "U+11133", "U+11134", "U+11173", "U+11180",
     "U+11181", "U+111B6", "U+111B7", "U+111B8", "U+111B9", "U+111BA",
     "U+111BB", "U+111BC", "U+111BD", "U+111BE", "U+111C9", "U+111CA",
     "U+111CB", "U+111CC", "U+111CF", "U+1122F", "U+11230", "U+11231",
     "U+11234", "U+11236", "U+11237", "U+1123E", "U+11241", "U+112DF",
     "U+112E3", "U+112E4", "U+112E5", "U+112E6", "U+112E7", "U+112E8",
     "U+112E9", "U+112EA", "U+11300", "U+11301", "U+1133B", "U+1133C",
     "U+11340", "U+11366", "U+11367", "U+11368", "U+11369", "U+1136A",
     "U+1136B", "U+1136C", "U+11370", "U+11371", "U+11372", "U+11373",
     "U+11374", "U+113BB", "U+113BC", "U+113BD", "U+113BE", "U+113BF",
     "U+113C0", "U+113CE", "U+113D0", "U+113D2", "U+113E1", "U+113E2",
     "U+11438", "U+11439", "U+1143A", "U+1143B", "U+1143C", "U+1143D",
     "U+1143E", "U+1143F", "U+11442", "U+11443", "U+11444", "U+11446",
     "U+1145E", "U+114B3", "U+114B4", "U+114B5", "U+114B6", "U+114B7",
     "U+114B8", "U+114BA", "U+114BF", "U+114C0", "U+114C2", "U+114C3",
     "U+115B2", "U+115B3", "U+115B4", "U+115B5", "U+115BC", "U+115BD",
     "U+115BF", "U+115C0", "U+115DC", "U+115DD", "U+11633", "U+11634",
     "U+11635", "U+11636", "U+11637", "U+11638", "U+11639", "U+1163A",
     "U+1163D", "U+1163F", "U+11640", "U+116AB", "U+116AD", "U+116B0",
     "U+116B1", "U+116B2", "U+116B3", "U+116B4", "U+116B5", "U+116B7",
     "U+1171D", "U+1171F", "U+11722", "U+11723", "U+11724", "U+11725",
     "U+11727", "U+11728", "U+11729", "U+1172A", "U+1172B", "U+1182F",
     "U+11830", "U+11831", "U+11832", "U+11833", "U+11834", "U+11835",
     "U+11836", "U+11837", "U+11839", "U+1183A", "U+1193B", "U+1193C",
     "U+1193E", "U+11943", "U+119D4", "U+119D5", "U+119D6", "U+119D7",
     "U+119DA", "U+119DB", "U+119E0", "U+11A01", "U+11A02", "U+11A03",
     "U+11A04", "U+11A05", "U+11A06", "U+11A07", "U+11A08", "U+11A09",
     "U+11A0A", "U+11A33", "U+11A34", "U+11A35", "U+11A36", "U+11A37",
     "U+11A38", "U+11A3B", "U+11A3C", "U+11A3D", "U+11A3E", "U+11A47",
     "U+11A51", "U+11A52", "U+11A53", "U+11A54", "U+11A55", "U+11A56",
     "U+11A59", "U+11A5A", "U+11A5B", "U+11A8A", "U+11A8B", "U+11A8C",
     "U+11A8D", "U+11A8E", "U+11A8F", "U+11A90", "U+11A91", "U+11A92",
     "U+11A93", "U+11A94", "U+11A95", "U+11A96", "U+11A98", "U+11A99",
     "U+11B60", "U+11B62", "U+11B63", "U+11B64", "U+11B66", "U+11C30",
     "U+11C31", "U+11C32", "U+11C33", "U+11C34", "U+11C35", "U+11C36",
     "U+11C38", "U+11C39", "U+11C3A", "U+11C3B", "U+11C3C", "U+11C3D",
     "U+11C3F", "U+11C92", "U+11C93", "U+11C94", "U+11C95", "U+11C96",
     "U+11C97", "U+11C98", "U+11C99", "U+11C9A", "U+11C9B", "U+11C9C",
     "U+11C9D", "U+11C9E", "U+11C9F", "U+11CA0", "U+11CA1", "U+11CA2",
     "U+11CA3", "U+11CA4", "U+11CA5", "U+11CA6", "U+11CA7", "U+11CAA",
     "U+11CAB", "U+11CAC", "U+11CAD", "U+11CAE", "U+11CAF", "U+11CB0",
     "U+11CB2", "U+11CB3", "U+11CB5", "U+11CB6", "U+11D31", "U+11D32",
     "U+11D33", "U+11D34", "U+11D35", "U+11D36", "U+11D3A", "U+11D3C",
     "U+11D3D", "U+11D3F", "U+11D40", "U+11D41", "U+11D42", "U+11D43",
     "U+11D44", "U+11D45", "U+11D47", "U+11D90", "U+11D91", "U+11D95",
     "U+11D97", "U+11DD9", "U+11EF3", "U+11EF4", "U+11F00", "U+11F01",
     "U+11F36", "U+11F37", "U+11F38", "U+11F39", "U+11F3A", "U+11F40",
     "U+11F42", "U+11F5A", "U+13430", "U+13431", "U+13432", "U+13433",
     "U+13434", "U+13435", "U+13436", "U+13437", "U+13438", "U+13439",
     "U+1343A", "U+1343B", "U+1343C", "U+1343D", "U+1343E", "U+1343F",
     "U+13440", "U+13447", "U+13448", "U+13449", "U+1344A", "U+1344B",
     "U+1344C", "U+1344D", "U+1344E", "U+1344F", "U+13450", "U+13451",
     "U+13452", "U+13453", "U+13454", "U+13455", "U+1611E", "U+1611F",
     "U+16120", "U+16121", "U+16122", "U+16123", "U+16124", "U+16125",
     "U+16126", "U+16127", "U+16128", "U+16129", "U+1612D", "U+1612E",
     "U+1612F", "U+16AF0", "U+16AF1", "U+16AF2", "U+16AF3", "U+16AF4",
     "U+16B30", "U+16B31", "U+16B32", "U+16B33", "U+16B34", "U+16B35",
     "U+16B36", "U+16B40", "U+16B41", "U+16B42", "U+16B43", "U+16D40",
     "U+16D41", "U+16D42", "U+16D6B", "U+16D6C", "U+16F4F", "U+16F8F",
     "U+16F90", "U+16F91", "U+16F92", "U+16F93", "U+16F94", "U+16F95",
     "U+16F96", "U+16F97", "U+16F98", "U+16F99", "U+16F9A", "U+16F9B",
     "U+16F9C", "U+16F9D", "U+16F9E", "U+16F9F", "U+16FE0", "U+16FE1",
     "U+16FE3", "U+16FE4", "U+16FF2", "U+16FF3", "U+1AFF0", "U+1AFF1",
     "U+1AFF2", "U+1AFF3", "U+1AFF5", "U+1AFF6", "U+1AFF7", "U+1AFF8",
     "U+1AFF9", "U+1AFFA", "U+1AFFB", "U+1AFFD", "U+1AFFE", "U+1BC9D",
     "U+1BC9E", "U+1BCA0", "U+1BCA1", "U+1BCA2", "U+1BCA3", "U+1CF00",
     "U+1CF01", "U+1CF02", "U+1CF03", "U+1CF04", "U+1CF05", "U+1CF06",
     "U+1CF07", "U+1CF08", "U+1CF09", "U+1CF0A", "U+1CF0B", "U+1CF0C",
     "U+1CF0D", "U+1CF0E", "U+1CF0F", "U+1CF10", "U+1CF11", "U+1CF12",
     "U+1CF13", "U+1CF14", "U+1CF15", "U+1CF16", "U+1CF17", "U+1CF18",
     "U+1CF19", "U+1CF1A", "U+1CF1B", "U+1CF1C", "U+1CF1D", "U+1CF1E",
     "U+1CF1F", "U+1CF20", "U+1CF21", "U+1CF22", "U+1CF23", "U+1CF24",
     "U+1CF25", "U+1CF26", "U+1CF27", "U+1CF28", "U+1CF29", "U+1CF2A",
     "U+1CF2B", "U+1CF2C", "U+1CF2D", "U+1CF30", "U+1CF31", "U+1CF32",
     "U+1CF33", "U+1CF34", "U+1CF35", "U+1CF36", "U+1CF37", "U+1CF38",
     "U+1CF39", "U+1CF3A", "U+1CF3B", "U+1CF3C", "U+1CF3D", "U+1CF3E",
     "U+1CF3F", "U+1CF40", "U+1CF41", "U+1CF42", "U+1CF43", "U+1CF44",
     "U+1CF45", "U+1CF46", "U+1D167", "U+1D168", "U+1D169", "U+1D173",
     "U+1D174", "U+1D175", "U+1D176", "U+1D177", "U+1D178", "U+1D179",
     "U+1D17A", "U+1D17B", "U+1D17C", "U+1D17D", "U+1D17E", "U+1D17F",
     "U+1D180", "U+1D181", "U+1D182", "U+1D185", "U+1D186", "U+1D187",
     "U+1D188", "U+1D189", "U+1D18A", "U+1D18B", "U+1D1AA", "U+1D1AB",
     "U+1D1AC", "U+1D1AD", "U+1D242", "U+1D243", "U+1D244", "U+1DA00",
     "U+1DA01", "U+1DA02", "U+1DA03", "U+1DA04", "U+1DA05", "U+1DA06",
     "U+1DA07", "U+1DA08", "U+1DA09", "U+1DA0A", "U+1DA0B", "U+1DA0C",
     "U+1DA0D", "U+1DA0E", "U+1DA0F", "U+1DA10", "U+1DA11", "U+1DA12",
     "U+1DA13", "U+1DA14", "U+1DA15", "U+1DA16", "U+1DA17", "U+1DA18",
     "U+1DA19", "U+1DA1A", "U+1DA1B", "U+1DA1C", "U+1DA1D", "U+1DA1E",
     "U+1DA1F", "U+1DA20", "U+1DA21", "U+1DA22", "U+1DA23", "U+1DA24",
     "U+1DA25", "U+1DA26", "U+1DA27", "U+1DA28", "U+1DA29", "U+1DA2A",
     "U+1DA2B", "U+1DA2C", "U+1DA2D", "U+1DA2E", "U+1DA2F", "U+1DA30",
     "U+1DA31", "U+1DA32", "U+1DA33", "U+1DA34", "U+1DA35", "U+1DA36",
     "U+1DA3B", "U+1DA3C", "U+1DA3D", "U+1DA3E", "U+1DA3F", "U+1DA40",
     "U+1DA41", "U+1DA42", "U+1DA43", "U+1DA44", "U+1DA45", "U+1DA46",
     "U+1DA47", "U+1DA48", "U+1DA49", "U+1DA4A", "U+1DA4B", "U+1DA4C",
     "U+1DA4D", "U+1DA4E", "U+1DA4F", "U+1DA50", "U+1DA51", "U+1DA52",
     "U+1DA53", "U+1DA54", "U+1DA55", "U+1DA56", "U+1DA57", "U+1DA58",
     "U+1DA59", "U+1DA5A", "U+1DA5B", "U+1DA5C", "U+1DA5D", "U+1DA5E",
     "U+1DA5F", "U+1DA60", "U+1DA61", "U+1DA62", "U+1DA63", "U+1DA64",
     "U+1DA65", "U+1DA66", "U+1DA67", "U+1DA68", "U+1DA69", "U+1DA6A",
     "U+1DA6B", "U+1DA6C", "U+1DA75", "U+1DA84", "U+1DA9B", "U+1DA9C",
     "U+1DA9D", "U+1DA9E", "U+1DA9F", "U+1DAA1", "U+1DAA2", "U+1DAA3",
     "U+1DAA4", "U+1DAA5", "U+1DAA6", "U+1DAA7", "U+1DAA8", "U+1DAA9",
     "U+1DAAA", "U+1DAAB", "U+1DAAC", "U+1DAAD", "U+1DAAE", "U+1DAAF",
     "U+1E000", "U+1E001", "U+1E002", "U+1E003", "U+1E004", "U+1E005",
     "U+1E006", "U+1E008", "U+1E009", "U+1E00A", "U+1E00B", "U+1E00C",
     "U+1E00D", "U+1E00E", "U+1E00F", "U+1E010", "U+1E011", "U+1E012",
     "U+1E013", "U+1E014", "U+1E015", "U+1E016", "U+1E017", "U+1E018",
     "U+1E01B", "U+1E01C", "U+1E01D", "U+1E01E", "U+1E01F", "U+1E020",
     "U+1E021", "U+1E023", "U+1E024", "U+1E026", "U+1E027", "U+1E028",
     "U+1E029", "U+1E02A", "U+1E030", "U+1E031", "U+1E032", "U+1E033",
     "U+1E034", "U+1E035", "U+1E036", "U+1E037", "U+1E038", "U+1E039",
     "U+1E03A", "U+1E03B", "U+1E03C", "U+1E03D", "U+1E03E", "U+1E03F",
     "U+1E040", "U+1E041", "U+1E042", "U+1E043", "U+1E044", "U+1E045",
     "U+1E046", "U+1E047", "U+1E048", "U+1E049", "U+1E04A", "U+1E04B",
     "U+1E04C", "U+1E04D", "U+1E04E", "U+1E04F", "U+1E050", "U+1E051",
     "U+1E052", "U+1E053", "U+1E054", "U+1E055", "U+1E056", "U+1E057",
     "U+1E058", "U+1E059", "U+1E05A", "U+1E05B", "U+1E05C", "U+1E05D",
     "U+1E05E", "U+1E05F", "U+1E060", "U+1E061", "U+1E062", "U+1E063",
     "U+1E064", "U+1E065", "U+1E066", "U+1E067", "U+1E068", "U+1E069",
     "U+1E06A", "U+1E06B", "U+1E06C", "U+1E06D", "U+1E08F", "U+1E130",
     "U+1E131", "U+1E132", "U+1E133", "U+1E134", "U+1E135", "U+1E136",
     "U+1E137", "U+1E138", "U+1E139", "U+1E13A", "U+1E13B", "U+1E13C",
     "U+1E13D", "U+1E2AE", "U+1E2EC", "U+1E2ED", "U+1E2EE", "U+1E2EF",
     "U+1E4EB", "U+1E4EC", "U+1E4ED", "U+1E4EE", "U+1E4EF", "U+1E5EE",
     "U+1E5EF", "U+1E6E3", "U+1E6E6", "U+1E6EE", "U+1E6EF", "U+1E6F5",
     "U+1E6FF", "U+1E8D0", "U+1E8D1", "U+1E8D2", "U+1E8D3", "U+1E8D4",
     "U+1E8D5", "U+1E8D6", "U+1E944", "U+1E945", "U+1E946", "U+1E947",
     "U+1E948", "U+1E949", "U+1E94A", "U+1E94B", "U+1F3FB", "U+1F3FC",
     "U+1F3FD", "U+1F3FE", "U+1F3FF", "U+E0001", "U+E0020", "U+E0021",
     "U+E0022", "U+E0023", "U+E0024", "U+E0025", "U+E0026", "U+E0027",
     "U+E0028", "U+E0029", "U+E002A", "U+E002B", "U+E002C", "U+E002D",
     "U+E002E", "U+E002F", "U+E0030", "U+E0031", "U+E0032", "U+E0033",
     "U+E0034", "U+E0035", "U+E0036", "U+E0037", "U+E0038", "U+E0039",
     "U+E003A", "U+E003B", "U+E003C", "U+E003D", "U+E003E", "U+E003F",
     "U+E0040", "U+E0041", "U+E0042", "U+E0043", "U+E0044", "U+E0045",
     "U+E0046", "U+E0047", "U+E0048", "U+E0049", "U+E004A", "U+E004B",
     "U+E004C", "U+E004D", "U+E004E", "U+E004F", "U+E0050", "U+E0051",
     "U+E0052", "U+E0053", "U+E0054", "U+E0055", "U+E0056", "U+E0057",
     "U+E0058", "U+E0059", "U+E005A", "U+E005B", "U+E005C", "U+E005D",
     "U+E005E", "U+E005F", "U+E0060", "U+E0061", "U+E0062", "U+E0063",
     "U+E0064", "U+E0065", "U+E0066", "U+E0067", "U+E0068", "U+E0069",
     "U+E006A", "U+E006B", "U+E006C", "U+E006D", "U+E006E", "U+E006F",
     "U+E0070", "U+E0071", "U+E0072", "U+E0073", "U+E0074", "U+E0075",
     "U+E0076", "U+E0077", "U+E0078", "U+E0079", "U+E007A", "U+E007B",
     "U+E007C", "U+E007D", "U+E007E", "U+E007F", "U+E0100", "U+E0101",
     "U+E0102", "U+E0103", "U+E0104", "U+E0105", "U+E0106", "U+E0107",
     "U+E0108", "U+E0109", "U+E010A", "U+E010B", "U+E010C", "U+E010D",
     "U+E010E", "U+E010F", "U+E0110", "U+E0111", "U+E0112", "U+E0113",
     "U+E0114", "U+E0115", "U+E0116", "U+E0117", "U+E0118", "U+E0119",
     "U+E011A", "U+E011B", "U+E011C", "U+E011D", "U+E011E", "U+E011F",
     "U+E0120", "U+E0121", "U+E0122", "U+E0123", "U+E0124", "U+E0125",
     "U+E0126", "U+E0127", "U+E0128", "U+E0129", "U+E012A", "U+E012B",
     "U+E012C", "U+E012D", "U+E012E", "U+E012F", "U+E0130", "U+E0131",
     "U+E0132", "U+E0133", "U+E0134", "U+E0135", "U+E0136", "U+E0137",
     "U+E0138", "U+E0139", "U+E013A", "U+E013B", "U+E013C", "U+E013D",
     "U+E013E", "U+E013F", "U+E0140", "U+E0141", "U+E0142", "U+E0143",
     "U+E0144", "U+E0145", "U+E0146", "U+E0147", "U+E0148", "U+E0149",
     "U+E014A", "U+E014B", "U+E014C", "U+E014D", "U+E014E", "U+E014F",
     "U+E0150", "U+E0151", "U+E0152", "U+E0153", "U+E0154", "U+E0155",
     "U+E0156", "U+E0157", "U+E0158", "U+E0159", "U+E015A", "U+E015B",
     "U+E015C", "U+E015D", "U+E015E", "U+E015F", "U+E0160", "U+E0161",
     "U+E0162", "U+E0163", "U+E0164", "U+E0165", "U+E0166", "U+E0167",
     "U+E0168", "U+E0169", "U+E016A", "U+E016B", "U+E016C", "U+E016D",
     "U+E016E", "U+E016F", "U+E0170", "U+E0171", "U+E0172", "U+E0173",
     "U+E0174", "U+E0175", "U+E0176", "U+E0177", "U+E0178", "U+E0179",
     "U+E017A", "U+E017B", "U+E017C", "U+E017D", "U+E017E", "U+E017F",
     "U+E0180", "U+E0181", "U+E0182", "U+E0183", "U+E0184", "U+E0185",
     "U+E0186", "U+E0187", "U+E0188", "U+E0189", "U+E018A", "U+E018B",
     "U+E018C", "U+E018D", "U+E018E", "U+E018F", "U+E0190", "U+E0191",
     "U+E0192", "U+E0193", "U+E0194", "U+E0195", "U+E0196", "U+E0197",
     "U+E0198", "U+E0199", "U+E019A", "U+E019B", "U+E019C", "U+E019D",
     "U+E019E", "U+E019F", "U+E01A0", "U+E01A1", "U+E01A2", "U+E01A3",
     "U+E01A4", "U+E01A5", "U+E01A6", "U+E01A7", "U+E01A8", "U+E01A9",
     "U+E01AA", "U+E01AB", "U+E01AC", "U+E01AD", "U+E01AE", "U+E01AF",
     "U+E01B0", "U+E01B1", "U+E01B2", "U+E01B3", "U+E01B4", "U+E01B5",
     "U+E01B6", "U+E01B7", "U+E01B8", "U+E01B9", "U+E01BA", "U+E01BB",
     "U+E01BC", "U+E01BD", "U+E01BE", "U+E01BF", "U+E01C0", "U+E01C1",
     "U+E01C2", "U+E01C3", "U+E01C4", "U+E01C5", "U+E01C6", "U+E01C7",
     "U+E01C8", "U+E01C9", "U+E01CA", "U+E01CB", "U+E01CC", "U+E01CD",
     "U+E01CE", "U+E01CF", "U+E01D0", "U+E01D1", "U+E01D2", "U+E01D3",
     "U+E01D4", "U+E01D5", "U+E01D6", "U+E01D7", "U+E01D8", "U+E01D9",
     "U+E01DA", "U+E01DB", "U+E01DC", "U+E01DD", "U+E01DE", "U+E01DF",
     "U+E01E0", "U+E01E1", "U+E01E2", "U+E01E3", "U+E01E4", "U+E01E5",
     "U+E01E6", "U+E01E7", "U+E01E8", "U+E01E9", "U+E01EA", "U+E01EB",
     "U+E01EC", "U+E01ED", "U+E01EE", "U+E01EF"}

\* The lower case of the characters that have one other than themselves.
LowerOf ==
    [ch \in {UpperCase[i] : i \in 1..Len(UpperCase)} |->
        LowerCase[CHOOSE i \in 1..Len(UpperCase) : UpperCase[i] = ch]]

\* String.prototype.toLowerCase of a string of one character.
lowerChar(ch) ==
    IF ch \in DOMAIN LowerOf THEN <<LowerOf[ch]>>
    ELSE IF ch = CapitalIWithDot THEN <<"i", CombiningDotAbove>>
    ELSE <<ch>>

\* The capital sigma at position i of s is in the Final_Sigma context: the
\* nearest character before it that is not case-ignorable is cased, and the
\* nearest one after it, if any, is not.
isFinalSigma(s, i) ==
    LET preceding == {j \in 1..(i - 1) : s[j] \notin CaseIgnorable}
        following == {j \in (i + 1)..Len(s) : s[j] \notin CaseIgnorable}
        nearestBefore ==
            CHOOSE j \in preceding : \A k \in preceding : k <= j
        nearestAfter ==
            CHOOSE j \in following : \A k \in following : j <= k
    IN  /\ preceding # {}
        /\ s[nearestBefore] \in Cased
        /\ following = {} \/ s[nearestAfter] \notin Cased

\* String.prototype.toLowerCase
RECURSIVE lowerFrom(_, _)
lowerFrom(s, i) ==
    IF i > Len(s) THEN <<>>
    ELSE (IF s[i] = CapitalSigma /\ isFinalSigma(s, i) THEN <<FinalSigma>>
          ELSE lowerChar(s[i]))
         \o lowerFrom(s, i + 1)
toLowerCase(s) == lowerFrom(s, 1)

\* String.prototype.includes
stringIncludes(s, sub) ==
    \E i \in 1..(Len(s) - Len(sub) + 1) : SubSeq(s, i, i + Len(sub) - 1) = sub

sensitiveFields ==
    <<<<"p", "a", "s", "s", "w", "o", "r", "d">>,
      <<"t", "o", "k", "e", "n">>,
      <<"s", "e", "c", "r", "e", "t">>,
      <<"a", "p", "i", "K", "e", "y">>,
      <<"c", "r", "e", "d", "i", "t", "C", "a", "r", "d">>>>

\* sensitiveFields.some((field) =>
\*     key.toLowerCase().includes(field.toLowerCase()))
isSensitive(key) ==
    \E i \in 1..Len(sensitiveFields) :
        stringIncludes(toLowerCase(key), toLowerCase(sensitiveFields[i]))

Redacted == [t |-> "str", s |-> "***REDACTED***"]
JsonNull == [t |-> "null"]
JsonString(x) == [t |-> "str", s |-> x]
JsonArray(x) == [t |-> "arr", a |-> x]
JsonObject(x) == [t |-> "obj", f |-> x]

\* typeof v === 'object' && v !== null
isObject(v) == v.t \in {"obj", "arr"}

\* JSON.parse(JSON.stringify(body)): a copy of the value, node by node.
RECURSIVE jsonClone(_)
jsonClone(v) ==
    CASE v.t = "obj" -> JsonObject([k \in DOMAIN v.f |-> jsonClone(v.f[k])])
      [] v.t = "arr" -> JsonArray([i \in 1..Len(v.a) |-> jsonClone(v.a[i])])
      [] v.t = "str" -> JsonString(v.s)
      [] OTHER -> JsonNull

\* sanitize(obj): the value after the call.  for (const key in obj) visits
\* the keys of an object and the indices of an array; nothing else has keys
\* that match or values that are objects.
RECURSIVE sanitize(_)
sanitize(v) ==
    CASE v.t = "obj" ->
            JsonObject([k \in DOMAIN v.f |->
                IF isSensitive(k) THEN Redacted
                ELSE IF isObject(v.f[k]) THEN sanitize(v.f[k]) ELSE v.f[k]])
      [] v.t = "arr" ->
            JsonArray([i \in 1..Len(v.a) |->
                IF isObject(v.a[i]) THEN sanitize(v.a[i]) ELSE v.a[i]])
      [] OTHER -> v

\* The keys of the bodies drawn; two of them are written with the Kelvin
\* sign, one with a capital sigma.
KelvinSign == "U+212A"
KeyName == <<"n", "a", "m", "e">>
BodyKeys ==
    {<<"p", "a", "s", "s", "w", "o", "r", "d">>,
     <<"u", "s", "e", "r", "T", "o", "k", "e", "n">>,
     <<"S", "E", "C", "R", "E", "T">>,
     <<"a", "p", "i", "k", "e", "y">>,
     <<"C", "r", "e", "d", "i", "t", "C", "a", "r", "d", "N", "o">>,
     <<"t", "o", KelvinSign, "e", "n">>,
     <<"A", "P", "I", KelvinSign, "E", "Y">>,
     <<"É", "T", "A", "T", CapitalSigma>>,
     KeyName,
     <<"p", "a", "s", "s">>,
     <<"d", "a", "t", "a">>}

JsonLeaves == {JsonNull, JsonString("hunter2")}

\* The values nested at most d deep: a leaf, an object of one key or an
\* array of one element.
RECURSIVE JsonValues(_)
JsonValues(d) ==
    IF d = 0 THEN JsonLeaves
    ELSE LET inner == JsonValues(d - 1)
         IN  JsonLeaves
             \cup {JsonObject([x \in {k} |-> v]) : k \in BodyKeys, v \in inner}
             \cup {JsonArray(<<v>>) : v \in inner}

\* The bodies drawn: the values of depth MaxDepth and the objects of two
\* keys, one of them a name with a string.
Bodies ==
    JsonValues(MaxDepth)
    \cup {JsonObject([x \in {k, KeyName} |->
                        IF x = k THEN v ELSE JsonString("hunter2")]) :
            k \in BodyKeys \ {KeyName}, v \in JsonValues(1)}

BodyMethods == {"GET", "POST", "PUT", "PATCH", "DELETE"}
StrApplicationJson ==
    <<"a", "p", "p", "l", "i", "c", "a", "t", "i", "o", "n", "/",
      "j", "s", "o", "n">>
\* The content-type headers drawn: none, application/json alone, with a
\* charset parameter, as part of another subtype, in upper case, and
\* text/plain.
ContentTypes ==
    {Undefined,
     StrApplicationJson,
     StrApplicationJson \o <<";", "c", "h", "a", "r", "s", "e", "t", "=",
                             "U", "T", "F", "-", "8">>,
     StrApplicationJson \o <<"-", "p", "a", "t", "c", "h", "+", "j", "s",
                             "o", "n">>,
     <<"A", "p", "p", "l", "i", "c", "a", "t", "i", "o", "n", "/",
       "J", "S", "O", "N">>,
     <<"t", "e", "x", "t", "/", "p", "l", "a", "i", "n">>}

\* ['POST', 'PUT', 'PATCH'].includes(c.req.method)
hasBody(method) == method \in {"POST", "PUT", "PATCH"}

\* contentType?.includes('application/json')
isJson(contentType) ==
    contentType # Undefined /\ stringIncludes(contentType, StrApplicationJson)

\* c.req.bodyCache.json when the handler has not assigned it.
NotCached == [t |-> "not cached"]

\* The state of a call of requestBodyLogger: suspended at an await ("json"
\* for await c.req.json(), "next" for await next()) or settled, what
\* logger.debug was given, what c.req.bodyCache.json was assigned, how often
\* next was invoked and whether the call returned or threw.
bodyResult(pc, logged, bodyCache, nextCalls, outcome) ==
    [pc |-> pc, logged |-> logged, bodyCache |-> bodyCache,
     nextCalls |-> nextCalls, outcome |-> outcome]

\* await next(), the last statement of the handler.
awaitNextStage(logged, bodyCache) ==
    bodyResult("next", logged, bodyCache, 1, "pending")

\* requestBodyLogger()(c, next) up to its first await.
requestBodyLogger(method, contentType) ==
    IF hasBody(method) /\ isJson(contentType)
    THEN bodyResult("json", <<>>, NotCached, 0, "pending")
    ELSE awaitNextStage(<<>>, NotCached)

\* The handler from the settling of c.req.json() to await next(), given the
\* object that `sanitizedBody` refers to.  The objects of the handler are
\* object 1, which c.req.json() resolved to and `body` refers to, and
\* object 2, the copy made by JSON.parse(JSON.stringify(body)).
\* sanitize(sanitizedBody) changes the object it is given; logger.debug is
\* given that object, and c.req.bodyCache.json = body leaves object 1, as
\* it is then, to the downstream stage.
logSanitized(body, sanitizedBody) ==
    LET objects == <<body, jsonClone(body)>>
        sanitized == [objects EXCEPT ![sanitizedBody] = sanitize(@)]
    IN  awaitNextStage(<<sanitized[sanitizedBody]>>, sanitized[1])

\* Mutant: the body is sanitized itself (const sanitizedBody = body).
jsonSettlesInPlace(parses, body) ==
    IF parses THEN logSanitized(body, 1)
    ELSE awaitNextStage(<<>>, NotCached)

\* The handler after the promise of c.req.json() has settled: with the
\* parsed body it logs the sanitized copy, a rejection it catches and
\* ignores; then it invokes next.
jsonSettles(parses, body) ==
    IF parses THEN logSanitized(body, 2)
    ELSE awaitNextStage(<<>>, NotCached)

\* The handler after the promise of next() has settled with d.
nextStageSettles(r, d) ==
    bodyResult("settled", r.logged, r.bodyCache, r.nextCalls,
               IF d = "returns" THEN "returned" ELSE "threw")

\* The requests drawn: every body as a JSON POST, and a few bodies with
\* every method and content type, parseable or not, with a next that
\* returns or throws.
BodyCalls ==
    [pc : {"call"}, method : {"POST"}, contentType : {StrApplicationJson},
     parses : {TRUE}, body : Bodies, downstream : {"returns"}]
    \cup [pc : {"call"}, method : BodyMethods, contentType : ContentTypes,
          parses : BOOLEAN, body : JsonValues(1), downstream : {"returns"}]
    \cup [pc : {"call"}, method : BodyMethods, contentType : ContentTypes,
          parses : BOOLEAN, body : JsonLeaves, downstream : {"throws"}]

\* The request drawn for the other requests in flight.
BodyPeers ==
    {[pc |-> "call", method |-> "POST", contentType |-> StrApplicationJson,
      parses |-> TRUE,
      body |-> JsonObject([x \in {<<"t", "o", KelvinSign, "e", "n">>} |->
                              JsonString("hunter2")]),
      downstream |-> "returns"]}

InitBody ==
    /\ now = 0
    /\ store = [x \in {} |-> 0]
    /\ options = EmptyOptions
    /\ last = NoRequest
    /\ win = [x \in {} |-> 0]
    /\ run \in {[kind |-> "body", req |-> <<a>> \o p] :
                    a \in BodyCalls, p \in [1..(MaxFlight - 1) -> BodyPeers]}

\* The record of a call in state r.  The downstream stage reads the body
\* with c.req.json(): what the handler assigned to c.req.bodyCache.json,
\* and the body of the request when it assigned nothing.
bodyRun(c, r) ==
    [downstreamBody |->
        IF r.bodyCache = NotCached THEN c.body ELSE r.bodyCache] @@ r @@ c

\* requestBodyLogger is called for request i, after the requests before
\* it, and runs to its first await.
RequestBodyLogger(i) ==
    /\ run.kind = "body"
    /\ run.req[i].pc = "call"
    /\ \A j \in 1..(i - 1) : run.req[j].pc # "call"
    /\ run' = [run EXCEPT !.req[i] =
                bodyRun(@, requestBodyLogger(@.method, @.contentType))]
    /\ UNCHANGED <<now, store, options, last, win>>

\* The promise of c.req.json() settles for request i.
JsonSettles(i) ==
    /\ run.kind = "body"
    /\ run.req[i].pc = "json"
    /\ run' = [run EXCEPT !.req[i] =
                bodyRun(@, jsonSettles(@.parses, @.body))]
    /\ UNCHANGED <<now, store, options, last, win>>

\* The promise of next() settles for request i.
BodyNextSettles(i) ==
    /\ run.kind = "body"
    /\ run.req[i].pc = "next"
    /\ run' = [run EXCEPT !.req[i] =
                bodyRun(@, nextStageSettles(@, @.downstream))]
    /\ UNCHANGED <<now, store, options, last, win>>

NextBody ==
    \/ \E i \in Slots : RequestBodyLogger(i)
    \/ \E i \in Slots : JsonSettles(i)
    \/ \E i \in Slots : BodyNextSettles(i)

SpecBody == InitBody /\ [][NextBody]_vars

\* The names the claim lists, in lower case, and the keys that contain one
\* of them whatever the case: a character of the key matches a letter of
\* the name when it is that letter, its capital or, for k, the Kelvin sign.
ListedNames ==
    {<<"p", "a", "s", "s", "w", "o", "r", "d">>,
     <<"t", "o", "k", "e", "n">>,
     <<"s", "e", "c", "r", "e", "t">>,
     <<"a", "p", "i", "k", "e", "y">>,
     <<"c", "r", "e", "d", "i", "t", "c", "a", "r", "d">>}
Small == <<"a", "c", "d", "e", "i", "k", "n", "o", "p", "r", "s", "t", "w",
           "y">>
Capital == <<"A", "C", "D", "E", "I", "K", "N", "O", "P", "R", "S", "T", "W",
             "Y">>
SameLetter(ch, letter) ==
    \/ ch = letter
    \/ \E i \in 1..Len(Small) : Small[i] = letter /\ Capital[i] = ch
    \/ letter = "k" /\ ch = "U+212A"
NamesListed(key) ==
    \E w \in ListedNames :
        \E i \in 1..Len(key) :
            /\ i + Len(w) - 1 <= Len(key)
            /\ \A j \in 1..Len(w) : SameLetter(key[i + j - 1], w[j])

\* Every key of the value, at any depth, that contains a listed name has the
\* value '***REDACTED***'.
RECURSIVE AllRedacted(_)
AllRedacted(v) ==
    CASE v.t = "obj" ->
            \A k \in DOMAIN v.f :
                IF NamesListed(k) THEN v.f[k] = Redacted
                ELSE AllRedacted(v.f[k])
      [] v.t = "arr" -> \A i \in 1..Len(v.a) : AllRedacted(v.a[i])
      [] OTHER -> TRUE

\* C20: in the body requestBodyLogger logs, every key at any depth whose
\* name contains password, token, secret, apiKey or creditCard, whatever the
\* case, has the value '***REDACTED***'; the body the downstream stage reads
\* is the original one; next is invoked exactly once, also when the body
\* does not parse.
InvC20 ==
    \A i \in Slots : LET r == run.req[i] IN
    /\ r.pc = "json" => r.nextCalls = 0
    /\ r.pc \in {"next", "settled"} =>
        /\ \A k \in 1..Len(r.logged) : AllRedacted(r.logged[k])
        /\ r.downstreamBody = r.body
        /\ r.nextCalls = 1
        /\ hasBody(r.method) /\ isJson(r.contentType) /\ r.parses =>
                Len(r.logged) = 1
KeyData == <<"d", "a", "t", "a">>
KeyUserToken == <<"u", "s", "e", "r", "T", "o", "k", "e", "n">>
\* A token nested in the body of one request has been logged redacted, and
\* the token a second request in flight writes with the Kelvin sign too.
WitnessC20 ==
    /\ run.kind = "body"
    /\ run.req[1].pc = "settled"
    /\ run.req[1].body =
         JsonObject([x \in {KeyData} |->
            JsonObject([y \in {KeyUserToken} |-> JsonString("hunter2")])])
    /\ run.req[1].logged =
         <<JsonObject([x \in {KeyData} |->
            JsonObject([y \in {KeyUserToken} |-> Redacted])])>>
    /\ run.req[1].downstreamBody = run.req[1].body
    /\ run.req[2].pc = "next"
    /\ run.req[2].logged =
         <<JsonObject([x \in {<<"t", "o", "U+212A", "e", "n">>} |->
                          Redacted])>>

\* ============================================================== logger
\* Logger.log, honoLogger and errorLogger of logger.ts: the lines written to
\* the console, each with the request that wrote it and the level of the
\* call that wrote it ("console" for the lines honoLogger writes with
\* console.log and console.error itself).

SlowRequestMs == 1000

\* process.env.LOG_LEVEL when the variable is not set.
EnvUnset == "<unset>"
LogLevelEnvs == {EnvUnset, "debug", "info", "warn", "error", "DEBUG"}

\* type LogLevel
LogLevels == {"info", "warn", "error", "debug"}

\* The data argument of a log call: undefined, an object or a string.
LogData == {"undefined", "object", "string"}

\* Logger.log(level, message, data): the lines written.  The level is not
\* compared with anything.
log(level, text, data) ==
    <<[level |-> level, text |-> text]>>
    \o (IF data # "undefined" THEN <<[level |-> level, text |-> data]>>
        ELSE <<>>)

\* Logger.info, Logger.warn, Logger.error, Logger.debug
loggerCall(level, text, data) == log(level, text, data)

\* honoLogger()(c, next) up to await next(), for a request whose URL has a
\* query string or not.
honoLogger(logLevel, hasSearch) ==
    <<[level |-> "console", text |-> "[INCOMING]"]>>
    \o (IF hasSearch THEN log("debug", "Query Parameters", "object")
        ELSE <<>>)
    \o (IF logLevel = "debug"
        THEN log("debug", "Request Headers", "object") ELSE <<>>)

\* The catch and finally blocks of honoLogger, after the promise of next()
\* has settled with d, duration ms after the handler read the clock.
honoLoggerFinally(logLevel, d, duration) ==
    LET error == d = "throws"
    IN  (IF error
         THEN <<[level |-> "console", text |-> "[ERROR]"],
                [level |-> "console", text |-> "stack"]>>
         ELSE <<>>)
        \o <<[level |-> "console",
              text |-> IF error THEN "[ERROR] status" ELSE "[COMPLETED]"]>>
        \o (IF duration > SlowRequestMs
            THEN log("warn", "Slow request detected", "undefined") ELSE <<>>)
        \o (IF logLevel = "debug" /\ ~error
            THEN log("debug", "Response Headers", "object") ELSE <<>>)

\* errorLogger()(c, next) after the promise of next() has settled with d:
\* the catch block logs the error and throws it again.
errorLogger(d) ==
    IF d = "throws"
    THEN log("error", "Unhandled error in request", "object")
    ELSE <<>>

\* The calls drawn: the arguments of a logger call, and the request of a
\* middleware call with what the promise of next() settles with.
LogCalls ==
    [pc : {"call"}, level : LogLevels, data : LogData, hasSearch : BOOLEAN,
     downstream : DownstreamOutcomes]

\* The calls drawn for the other requests in flight.
LogPeers ==
    {[pc |-> "call", level |-> "debug", data |-> "object",
      hasSearch |-> TRUE, downstream |-> "returns"],
     [pc |-> "call", level |-> "info", data |-> "undefined",
      hasSearch |-> FALSE, downstream |-> "throws"]}

InitLog ==
    /\ now = 0
    /\ store = [x \in {} |-> 0]
    /\ options = EmptyOptions
    /\ last = NoRequest
    /\ win = [x \in {} |-> 0]
    /\ run \in {[kind |-> "log", logLevel |-> e, lines |-> <<>>,
                 req |-> <<a>> \o p] :
                    e \in LogLevelEnvs, a \in LogCalls,
                    p \in [1..(MaxFlight - 1) -> LogPeers]}

\* The lines a call of request i writes, as the console receives them.
written(i, lines) ==
    [k \in 1..Len(lines) |-> [req |-> i] @@ lines[k]]

\* Request i, after the requests before it, makes a call that writes lines
\* and leaves the call in state pc.
callLog(i, name, lines, pc) ==
    /\ run.kind = "log"
    /\ run.req[i].pc = "call"
    /\ \A j \in 1..(i - 1) : run.req[j].pc # "call"
    /\ run' = [run EXCEPT !.lines = @ \o written(i, lines),
                          !.req[i] = [fn |-> name, pc |-> pc, start |-> now,
                                      outcome |-> IF pc = "settled"
                                                  THEN "returned"
                                                  ELSE "pending"] @@ @]
    /\ UNCHANGED <<now, store, options, last, win>>

\* logger.<level>(message, data) is called.
LoggerCall(i) ==
    callLog(i, "loggerCall",
            loggerCall(run.req[i].level, "message", run.req[i].data),
            "settled")

\* honoLogger handles request i up to await next().
HonoLogger(i) ==
    callLog(i, "honoLogger",
            honoLogger(run.logLevel, run.req[i].hasSearch), "next")

\* errorLogger handles request i up to await next().
ErrorLogger(i) == callLog(i, "errorLogger", <<>>, "next")

\* The promise of next() settles for request i: honoLogger runs its catch
\* and finally blocks, errorLogger its catch block, and each throws again
\* what next threw.
LogNextSettles(i) ==
    /\ run.kind = "log"
    /\ run.req[i].pc = "next"
    /\ LET r == run.req[i]
           lines == IF r.fn = "honoLogger"
                    THEN honoLoggerFinally(run.logLevel, r.downstream,
                                           now - r.start)
                    ELSE errorLogger(r.downstream)
       IN  run' = [run EXCEPT !.lines = @ \o written(i, lines),
                              !.req[i].pc = "settled",
                              !.req[i].outcome =
                                    IF r.downstream = "throws" THEN "threw"
                                    ELSE "returned"]
    /\ UNCHANGED <<now, store, options, last, win>>

\* The clock advances while honoLogger, which reads it, is suspended.
LogTick ==
    /\ run.kind = "log"
    /\ \E i \in Slots :
            run.req[i].pc = "next" /\ run.req[i].fn = "honoLogger"
    /\ now + TickMs <= MaxNow
    /\ now' = now + TickMs
    /\ UNCHANGED <<store, options, last, win, run>>

NextLog ==
    \/ \E i \in Slots : LoggerCall(i)
    \/ \E i \in Slots : HonoLogger(i)
    \/ \E i \in Slots : ErrorLogger(i)
    \/ \E i \in Slots : LogNextSettles(i)
    \/ LogTick

SpecLog == InitLog /\ [][NextLog]_vars

\* C21: a debug-level message, the query-parameter log of honoLogger
\* included, is written to the console only when LOG_LEVEL is 'debug'.
\* Violated: Logger.log writes every message whatever LOG_LEVEL is, and
\* honoLogger logs the query parameters without looking at LOG_LEVEL.
InvC21 ==
    run.kind = "log" =>
        ((\E i \in 1..Len(run.lines) : run.lines[i].level = "debug")
            => run.logLevel = "debug")

\* ========================================================= concurrency
\* Several requests of one client handled at once by the middleware
\* returned by rateLimit, each suspended at its awaits (skip, store.get,
\* store.set / store.increment) and resumed in any order.  run holds the
\* position and the locals of every request.

\* Number of requests in flight at once.
MaxConc == 3

ConcContext == [xff |-> <<"1">>, realIp |-> Undefined, user |-> NoUser]

ConcOptions ==
    { [limit |-> l, windowMs |-> w] @@ s :
        l \in 1..MaxLimit, w \in WindowChoices,
        s \in OptionChoices("skip", {"skipAdmin"}) }

\* A request that has not arrived.
IdleRequest ==
    [pc |-> "idle", ret |-> Null, currentCount |-> 0, admitted |-> FALSE]

InitConc ==
    /\ now = 0
    /\ store = [x \in {} |-> 0]
    /\ options \in ConcOptions
    /\ last = NoRequest
    /\ win = [x \in {} |-> 0]
    /\ run = [kind |-> "conc", req |-> [i \in 1..MaxConc |-> IdleRequest],
              firstEnd |-> -1]

\* const key = keyGenerator(c); store.get(key) is called and the handler is
\* suspended at the await.
callGet(i) ==
    LET got == get(store, keyGenerator(ConcContext), now)
    IN  /\ store' = got.store
        /\ run' = [run EXCEPT !.req[i].pc = "awaitGet",
                              !.req[i].ret = got.ret]

\* The request arrives: skip(c) is called and awaited when the option is
\* given, else the handler goes on to store.get.
ConcArrive(i) ==
    /\ run.req[i].pc = "idle"
    /\ IF hasSkip
       THEN /\ run' = [run EXCEPT !.req[i].pc = "awaitSkip"]
            /\ UNCHANGED store
       ELSE callGet(i)
    /\ UNCHANGED <<now, options, last, win>>

\* The handler resumes after await skip(c).
ConcAfterSkip(i) ==
    /\ run.req[i].pc = "awaitSkip"
    /\ IF skip(ConcContext)
       THEN /\ run' = [run EXCEPT !.req[i].pc = "done",
                                  !.req[i].admitted = TRUE]
            /\ UNCHANGED store
       ELSE callGet(i)
    /\ UNCHANGED <<now, options, last, win>>

\* The handler resumes after await store.get(key): store.set or
\* store.increment is called and the handler is suspended at the await.
ConcAfterGet(i) ==
    /\ run.req[i].pc = "awaitGet"
    /\ LET key == keyGenerator(ConcContext)
           currentCount == currentCountOf(run.req[i].ret)
       IN  /\ store' = IF currentCount = 0
                       THEN set(store, key, 1, windowMs, now)
                       ELSE increment(store, key, now).store
           /\ run' = [run EXCEPT
                        !.req[i].pc = "awaitStore",
                        !.req[i].currentCount = currentCount,
                        !.firstEnd = IF @ = -1 /\ currentCount = 0
                                     THEN now + windowMs ELSE @]
    /\ UNCHANGED <<now, options, last, win>>

\* The handler resumes after await store.set / store.increment: the request
\* is rejected or next is invoked.
ConcAfterStore(i) ==
    /\ run.req[i].pc = "awaitStore"
    /\ run' = [run EXCEPT
                 !.req[i].pc = "done",
                 !.req[i].admitted = ~isLimitExceeded(run.req[i].currentCount)]
    /\ UNCHANGED <<now, store, options, last, win>>

\* Time passes, less than one window in all.
ConcTick ==
    /\ now + TickMs < windowMs
    /\ now + TickMs <= MaxNow
    /\ now' = now + TickMs
    /\ UNCHANGED <<store, options, last, win, run>>

NextConc ==
    \/ ConcTick
    \/ \E i \in 1..MaxConc :
        \/ ConcArrive(i)
        \/ ConcAfterSkip(i)
        \/ ConcAfterGet(i)
        \/ ConcAfterStore(i)

SpecConc == InitConc /\ [][NextConc]_vars

ConcKey == keyGenerator(ConcContext)
ConcDone == {i \in 1..MaxConc : run.req[i].pc = "done"}
ConcInFlight == {i \in 1..MaxConc : run.req[i].pc \notin {"idle", "done"}}

\* C22: with requests of one key interleaved at the awaits of the
\* middleware, no more than limit of the requests of one window are
\* admitted.  Violated: two requests that both read no entry before either
\* has set one are both admitted with limit 1.
InvC22 ==
    run.kind = "conc" =>
        Cardinality({i \in ConcDone : run.req[i].admitted}) <= limit

\* C23: with requests of one key interleaved at the awaits of the
\* middleware, once the n requests that arrived within one window have
\* completed the stored count is n and the window end is the one set by
\* the first of them.  Violated: the second store.set starts the entry
\* again with count 1 and a new window end.
InvC23 ==
    run.kind = "conc" /\ ConcDone # {} /\ ConcInFlight = {} =>
        /\ ConcKey \in DOMAIN store
        /\ store[ConcKey].count = Cardinality(ConcDone)
        /\ store[ConcKey].resetTime = run.firstEnd

\* ===================================================== window and count
\* Claims about the entries of the store under Spec.

\* C24: with requests evaluated one at a time, store.get reports a count
\* exactly when the key has a live entry, store.set is called exactly when
\* it reported none, and then fixes the window end of the key; a request
\* that found a live entry, admitted or rejected, calls increment, which
\* leaves the window end as it is; the window end of every entry is the one
\* fixed when its window was started.
PropC24 ==
    [][ ~run'.overlap =>
          /\ \A i \in Slots :
                /\ GetStep(i) =>
                      (run'.req[i].currentCount = 0
                          <=> ~LiveEntry(run'.req[i].key))
                /\ StoreStep(i) =>
                      LET key == run.req[i].key
                      IN  /\ StoreOp(i) = "set" <=> run.req[i].currentCount = 0
                          /\ StoreOp(i) = "increment"
                                <=> run.req[i].currentCount # 0
                          /\ StoreOp(i) = "set" =>
                                store'[key].resetTime = now + windowMs
                          /\ StoreOp(i) = "increment" =>
                                IF key \in DOMAIN store
                                THEN /\ key \in DOMAIN store'
                                     /\ store'[key].resetTime
                                            = store[key].resetTime
                                ELSE store' = store
          /\ \A k \in DOMAIN store' : store'[k].resetTime = win'[k].end ]_vars
\* A request is rejected later in a window than the request that started
\* the window, and the window end is still the one fixed at the start.
WitnessC24 ==
    /\ OneAtATime
    /\ Evaluated /\ last.nextCalls = 0
    /\ last.prev.seen >= 1
    /\ last.arrivedAt > last.prev.end - windowMs
    /\ last.arrivedAt <= last.prev.end
    /\ last.key \in DOMAIN store
    /\ store[last.key].resetTime = last.prev.end

\* C25: with requests evaluated one at a time, the count of every live
\* entry is the number of requests seen for its key in the current window,
\* rejected ones included; the count of an entry never decreases while its
\* window lasts.
PropC25 ==
    [][ ~run'.overlap =>
          /\ \A k \in DOMAIN store' :
                ~(now' > store'[k].resetTime) => store'[k].count = win'[k].seen
          /\ \A k \in DOMAIN store \cap DOMAIN store' :
                store'[k].resetTime = store[k].resetTime =>
                      store'[k].count >= store[k].count ]_vars
\* A live entry counts more requests than the limit.
WitnessC25 ==
    /\ OneAtATime
    /\ Evaluated /\ limit >= 1
    /\ last.key \in DOMAIN store
    /\ now <= store[last.key].resetTime
    /\ store[last.key].count > limit
    /\ store[last.key].count = win[last.key].seen

\* C26: a request arriving exactly windowMs after the request that started
\* the window (at the window end) is not counted in that window: store.get
\* reports no entry and store.set is called with count 1.
InvC26 ==
    (OneAtATime /\ Evaluated /\ last.prev.seen >= 1
        /\ last.arrivedAt = last.prev.end) =>
            /\ last.currentCount = 0
            /\ last.storeOps = <<"get", "set">>

\* ============================================================ MemoryStore
\* The operations of a MemoryStore called in any order by a caller, with
\* the clock advancing in between.  Next to the store the model keeps a
\* second MemoryStore that receives the same get, set and increment calls at
\* the same times but no cleanup call.

\* The largest count an entry is given by the calls drawn.
MaxCount == 3

StoreKeys == {<<"a">>, <<"b">>}
StoreValues == {1, 2}
StoreTtls == {TickMs, MsPerSec + TickMs}
StoreOptions == [limit |-> 2, windowMs |-> MsPerSec + TickMs]

\* No evaluation of the limiter is suspended.  A suspended one is at the
\* await of store.get ("get") or at the await of store.set or
\* store.increment ("store"), with the count it made of what get returned.
NoPending ==
    [pc |-> "none", key |-> <<>>, currentCount |-> -1, shadowCount |-> -1]

NoStoreCall ==
    [kind |-> "store", op |-> "none", key |-> <<>>, at |-> 0,
     before |-> EmptyOptions, ret |-> Null, admitted |-> FALSE,
     shadow |-> EmptyOptions, shadowRet |-> Null, shadowAdmitted |-> FALSE,
     pending |-> NoPending]

\* The record of a store call, made while an evaluation of the limiter may
\* be suspended.
StoreCall == [NoStoreCall EXCEPT !.pending = run.pending]

InitStore ==
    /\ now = 0
    /\ store = EmptyOptions
    /\ options = StoreOptions
    /\ last = NoRequest
    /\ win = EmptyOptions
    /\ run = NoStoreCall

\* await store.get(key) on both stores.
StoreGet(key) ==
    /\ run.kind = "store"
    /\ LET r == get(store, key, now)
           sr == get(run.shadow, key, now)
       IN  /\ store' = r.store
           /\ run' = [StoreCall EXCEPT !.op = "get", !.key = key,
                        !.at = now, !.before = store, !.ret = r.ret,
                        !.shadow = sr.store, !.shadowRet = sr.ret]
    /\ UNCHANGED <<now, options, last, win>>

\* await store.set(key, value, ttl) on both stores.
StoreSet(key, value, ttl) ==
    /\ run.kind = "store"
    /\ store' = set(store, key, value, ttl, now)
    /\ run' = [StoreCall EXCEPT !.op = "set", !.key = key, !.at = now,
                 !.before = store,
                 !.shadow = set(run.shadow, key, value, ttl, now)]
    /\ UNCHANGED <<now, options, last, win>>

\* await store.increment(key) on both stores.
StoreIncrement(key) ==
    /\ run.kind = "store"
    /\ key \in DOMAIN run.shadow => run.shadow[key].count < MaxCount
    /\ LET r == increment(store, key, now)
           sr == increment(run.shadow, key, now)
       IN  /\ store' = r.store
           /\ run' = [StoreCall EXCEPT !.op = "increment", !.key = key,
                        !.at = now, !.before = store, !.ret = r.ret,
                        !.shadow = sr.store, !.shadowRet = sr.ret]
    /\ UNCHANGED <<now, options, last, win>>

\* One evaluation of the limiter (lines 443-456) on a store, up to the
\* await of store.get(key) that is called at time t.
evaluate(s, key, t) ==
    LET got == get(s, key, t)
    IN  [ret |-> got.ret, store |-> got.store,
         currentCount |-> currentCountOf(got.ret)]

\* The evaluation after await store.get(key): store.set or store.increment
\* is called at time t, when the clock is read again (lines 444-450).
evaluateStore(s, key, currentCount, t) ==
    IF currentCount = 0
    THEN set(s, key, 1, windowMs, t)
    ELSE increment(s, key, t).store

\* The evaluation after await store.set / store.increment: the decision is
\* taken on the count that get returned (lines 452-456).
evaluated(currentCount) == [admitted |-> ~isLimitExceeded(currentCount)]

\* An evaluation of the limiter calls store.get on both stores and is
\* suspended at the await.
StoreEvaluate(key) ==
    /\ run.kind = "store"
    /\ run.pending = NoPending
    /\ LET r == evaluate(store, key, now)
           sr == evaluate(run.shadow, key, now)
       IN  /\ store' = r.store
           /\ run' = [NoStoreCall EXCEPT !.op = "evaluate get", !.key = key,
                        !.at = now, !.before = store, !.ret = r.ret,
                        !.shadow = sr.store, !.shadowRet = sr.ret,
                        !.pending = [pc |-> "get", key |-> key,
                                     currentCount |-> r.currentCount,
                                     shadowCount |-> sr.currentCount]]
    /\ UNCHANGED <<now, options, last, win>>

\* The evaluation resumes after await store.get, after any other calls and
\* any time: it calls store.set or store.increment on both stores and is
\* suspended at the await.
StoreEvaluateStore ==
    /\ run.kind = "store"
    /\ run.pending.pc = "get"
    /\ LET key == run.pending.key
       IN  /\ key \in DOMAIN run.shadow =>
                    run.shadow[key].count < MaxCount
           /\ store' = evaluateStore(store, key, run.pending.currentCount,
                                     now)
           /\ run' = [StoreCall EXCEPT
                        !.op = "evaluate store", !.key = key, !.at = now,
                        !.before = store,
                        !.shadow = evaluateStore(run.shadow, key,
                                                 run.pending.shadowCount,
                                                 now),
                        !.pending.pc = "store"]
    /\ UNCHANGED <<now, options, last, win>>

\* The evaluation resumes after await store.set / store.increment, after
\* any other calls and any time, and takes its decision.
StoreEvaluated ==
    /\ run.kind = "store"
    /\ run.pending.pc = "store"
    /\ run' = [NoStoreCall EXCEPT
                 !.op = "evaluate", !.key = run.pending.key, !.at = now,
                 !.before = store,
                 !.ret = run.pending.currentCount,
                 !.admitted = evaluated(run.pending.currentCount).admitted,
                 !.shadow = run.shadow,
                 !.shadowRet = run.pending.shadowCount,
                 !.shadowAdmitted =
                     evaluated(run.pending.shadowCount).admitted]
    /\ UNCHANGED <<now, store, options, last, win>>

\* The sweep of setInterval(() => store.cleanup(), ...), on the store
\* alone.
StoreCleanup ==
    /\ run.kind = "store"
    /\ store' = cleanup(store, now)
    /\ run' = [StoreCall EXCEPT !.op = "cleanup", !.at = now,
                 !.before = store, !.shadow = run.shadow]
    /\ UNCHANGED <<now, options, last, win>>

StoreTick ==
    /\ run.kind = "store"
    /\ now + TickMs <= MaxNow
    /\ now' = now + TickMs
    /\ UNCHANGED <<store, options, last, win, run>>

NextStore ==
    \/ \E key \in StoreKeys : StoreGet(key)
    \/ \E key \in StoreKeys, value \in StoreValues, ttl \in StoreTtls :
          StoreSet(key, value, ttl)
    \/ \E key \in StoreKeys : StoreIncrement(key)
    \/ \E key \in StoreKeys : StoreEvaluate(key)
    \/ StoreEvaluateStore
    \/ StoreEvaluated
    \/ StoreCleanup
    \/ StoreTick

SpecStore == InitStore /\ [][NextStore]_vars

\* The entry of key in s is absent or its window has expired at t.
NoLiveEntry(s, key, t) == key \notin DOMAIN s \/ t > s[key].resetTime

\* C27: increment on a key with no entry or an expired entry returns 0 and
\* leaves the store as it was; on a live entry it adds exactly 1 to the
\* count of that entry, changes nothing else and returns the new count.
InvC27 ==
    (run.kind = "store" /\ run.op = "increment") =>
        IF NoLiveEntry(run.before, run.key, run.at)
        THEN run.ret = 0 /\ store = run.before
        ELSE /\ run.ret = run.before[run.key].count + 1
             /\ store = [run.before EXCEPT ![run.key].count = @ + 1]
\* increment was called on an expired entry that the store still holds,
\* while another key has an entry with a count above 1.
WitnessC27 ==
    /\ run.kind = "store" /\ run.op = "increment"
    /\ run.key \in DOMAIN run.before
    /\ run.at > run.before[run.key].resetTime
    /\ run.ret = 0
    /\ \E k \in DOMAIN store : k # run.key /\ store[k].count >= 2

\* C28: with cleanup calls inserted at any points, every get and every
\* increment returns what it returns without them, and every evaluation of
\* the limiter takes the same decision; cleanup deletes only entries whose
\* window has expired.
InvC28 ==
    run.kind = "store" =>
        /\ run.op \in {"get", "increment", "evaluate get", "evaluate"} =>
                run.ret = run.shadowRet
        /\ run.op = "evaluate" => run.admitted = run.shadowAdmitted
        /\ run.op = "cleanup" =>
                \A k \in DOMAIN run.before \ DOMAIN store :
                    run.at > run.before[k].resetTime
\* An evaluation of the limiter rejects a request on the count its get
\* returned, after the sweep has deleted an expired entry that the store
\* without sweep still holds.
WitnessC28 ==
    /\ run.kind = "store" /\ run.op = "evaluate"
    /\ run.ret # 0 /\ ~run.admitted
    /\ DOMAIN store # DOMAIN run.shadow

\* ========================================================= store failures
\* The limiter with a store (options.store) whose calls can fail: the
\* promise of store.get, store.set or store.increment rejects.

\* The errors a store call rejects with: a plain Error and an
\* HTTPException of the store's own.
StoreErrors ==
    { [isHTTPException |-> FALSE, status |-> 0,
       message |-> "store failure", cause |-> NoCause],
      [isHTTPException |-> TRUE, status |-> InternalServerError,
       message |-> "store unavailable", cause |-> NoCause] }
StoreOps == {"get", "set", "increment"}

FailOptions ==
    { [limit |-> 1, windowMs |-> MsPerSec],
      [limit |-> 1, windowMs |-> MsPerSec,
       handler |-> "customHandler", skip |-> "skipAdmin"] }

InitFail ==
    /\ now = 0
    /\ store = EmptyOptions
    /\ options \in FailOptions
    /\ last = NoRequest
    /\ win = EmptyOptions
    /\ run = NoFlight(MaxFlight)

\* Mutant: the limiter catches the failure of the store and lets the
\* request through.
storeRejectsFailOpen(r) ==
    [NoRequest EXCEPT
       !.kind = "request", !.ctx = r.ctx, !.key = r.key, !.keyCalls = 1,
       !.storeOps = r.storeOps, !.failedOp = r.storeOps[Len(r.storeOps)],
       !.currentCount = r.currentCount, !.arrivedAt = r.arrivedAt,
       !.evaluatedAt = r.evaluatedAt, !.prev = r.prev,
       !.nextCalls = 1, !.response = Downstream("next")]

\* The handler resumes at `await store.<op>(...)` (lines 443, 447, 449) with
\* the promise rejected: the handler has no try/catch, so its own promise
\* rejects with the same error at that line, nothing after the line runs,
\* and the application makes the response of the error.
storeRejects(r) ==
    [NoRequest EXCEPT
       !.kind = "request", !.ctx = r.ctx, !.key = r.key, !.keyCalls = 1,
       !.storeOps = r.storeOps, !.failedOp = r.storeOps[Len(r.storeOps)],
       !.currentCount = r.currentCount, !.arrivedAt = r.arrivedAt,
       !.evaluatedAt = r.evaluatedAt, !.prev = r.prev,
       !.nextCalls = 0, !.thrown = TRUE, !.error = r.rejected,
       !.response = onError(r.rejected)]

\* store.get(key) is called and its promise will reject with err.
getRejects(i, c, err) ==
    /\ run' = [run EXCEPT
                 !.req[i] = [IdleSlot EXCEPT
                               !.pc = "get", !.ctx = c,
                               !.key = keyGenerator(c), !.arrivedAt = now,
                               !.storeOps = <<"get">>, !.rejected = err],
                 !.overlap = @ \/ InFlight \ {i} # {}]
    /\ last' = NoRequest
    /\ UNCHANGED <<now, store, options, win>>

\* A request arrives and its store.get will fail.
ArriveGetFails(i, c, err) ==
    /\ run.req[i].pc = "idle"
    /\ \A j \in Slots : j < i => run.req[j].pc # "idle"
    /\ ~hasSkip
    /\ getRejects(i, c, err)

\* The handler resumes after await skip(c) and its store.get will fail.
AfterSkipGetFails(i, err) ==
    /\ run.req[i].pc = "skip"
    /\ ~shouldSkip(run.req[i].ctx)
    /\ getRejects(i, run.req[i].ctx, err)

\* The handler resumes after await store.get(key) and its store.set or
\* store.increment will fail.
AfterGetStoreFails(i, err) ==
    /\ run.req[i].pc = "get"
    /\ run.req[i].rejected = NoStoreError
    /\ run' = [run EXCEPT
                 !.req[i].pc = "store",
                 !.req[i].evaluatedAt = now,
                 !.req[i].prev = WinOf(run.req[i].key),
                 !.req[i].storeOps =
                     @ \o <<IF run.req[i].currentCount = 0 THEN "set"
                            ELSE "increment">>,
                 !.req[i].rejected = err]
    /\ last' = NoRequest
    /\ UNCHANGED <<now, store, options, win>>

\* The handler resumes at the await of the store call that failed.
Rejected(i) ==
    /\ run.req[i].pc \in {"get", "store"}
    /\ run.req[i].rejected # NoStoreError
    /\ last' = storeRejects(run.req[i])
    /\ run' = [run EXCEPT !.req[i] = IdleSlot]
    /\ UNCHANGED <<now, store, options, win>>

NextFail ==
    \/ Tick
    \/ \E i \in Slots, c \in Clients : Arrive(i, c, SeenBound)
    \/ \E i \in Slots : AfterSkip(i, SeenBound)
    \/ \E i \in Slots : AfterGet(i)
    \/ \E i \in Slots : AfterStore(i)
    \/ \E i \in Slots, c \in Clients, err \in StoreErrors :
          ArriveGetFails(i, c, err)
    \/ \E i \in Slots, err \in StoreErrors : AfterSkipGetFails(i, err)
    \/ \E i \in Slots, err \in StoreErrors : AfterGetStoreFails(i, err)
    \/ \E i \in Slots : Rejected(i)

SpecFail == InitFail /\ [][NextFail]_vars

\* C29: when store.get, store.set or store.increment fails during the
\* evaluation of a request, the failure is thrown by the limiter as it is:
\* the next stage and the handler are not called, no header is set, and
\* the response is the one the application makes of the store's error, not
\* a 429.
InvC29 ==
    (Handled /\ last.failedOp # "none") =>
        /\ last.failedOp \in StoreOps
        /\ last.thrown
        /\ last.error \in StoreErrors
        /\ last.nextCalls = 0
        /\ last.handlerCalls = 0
        /\ DOMAIN last.headers = {}
        /\ last.response.status # TooManyRequests
        /\ last.response.status =
              IF last.error.isHTTPException THEN last.error.status
              ELSE InternalServerError
\* store.increment fails for a request that finds the limit of its key
\* used up.
WitnessC29 ==
    /\ Handled /\ last.failedOp = "increment"
    /\ last.currentCount >= limit
    /\ last.prev.seen >= limit

\* ======================================================== user isolation
\* C30: under createUserRateLimit a request without a user, whatever its
\* x-forwarded-for and x-real-ip headers, is never given the key of a
\* request with a user.  Violated: the default key of a request without a
\* user whose x-forwarded-for is "user:7" is "ratelimit:user:7", the key of
\* the user with id 7.
InvC30 ==
    (run.kind = "userKey" /\ hasUser(run.ctx) /\ ~hasUser(run.peer)) =>
        run.key # run.peerKey

====
